---------------------------- MODULE Spec2Model ----------------------------
(***************************************************************************)
(* ConversationManager (1-Incubation-Phase/src/agent/conversation_manager) *)
(* as a state machine: the in-memory conversation store, the customer      *)
(* index and the identity links, with one action per public method; the    *)
(* components of the agent (1-Incubation-Phase/src/agent/prototype) as     *)
(* operators, and its handling of a ticket as an action; the manager's     *)
(* methods as the steps of callers that run at the same time.              *)
(*                                                                         *)
(* Identifiers are sequences of characters so that lower()/strip() are     *)
(* computed; float sentiments are integers in hundredths; ISO timestamps   *)
(* integers read from the clock `now`; uuid4 ids are the next free number. *)
(***************************************************************************)
EXTENDS Integers, Sequences, FiniteSets, TLC

VARIABLES
    conversations,   \* self._conversations : conversation_id -> Conversation
    customer_index,  \* self._customer_index : customer_id -> list of conversation ids
    identity_links,  \* self._identity_links : identifier -> set of identifiers
    now,             \* the clock read by datetime.now(timezone.utc)
    result,          \* the last call: its arguments and what it returned or raised
    prev,            \* history: the call before it (kept by the specifications that need it)
    was_resolved,    \* history: the ids of the conversations whose status has been "resolved"
    threads          \* the callers that share the manager: where each is in its call, and
                     \* the calls it has made (kept by the specification of concurrent callers)

vars == <<conversations, customer_index, identity_links, now, result, prev, was_resolved,
          threads>>
store == <<conversations, customer_index, identity_links>>

----------------------------------------------------------------------------
(* Bounds of the model *)

MaxConvs == 2    \* conversations in the store
MaxMsgs == 1     \* messages of one conversation
MaxThreads == 1  \* conversations in the store, where their contents are what matters
MaxHistory == 2  \* messages in the store, where the order of messages matters
MaxClock == 1    \* the latest time the clock shows
MaxSamples == 4  \* messages in the store, where sentiment trends are what matters
MaxWords == 3    \* words of a message
MaxTerms == 4    \* words of a message, where their number decides the intent
MaxPieces == 4   \* pieces of a text to truncate
MaxTickets == 3  \* tickets handled one after the other
MaxCalls == 3    \* calls of one caller

----------------------------------------------------------------------------
(* str.lower() and str.strip() on identifiers *)

LowerChar(c) ==
    CASE c = "A" -> "a"
      [] c = "B" -> "b"
      [] c = "C" -> "c"
      [] c = "D" -> "d"
      [] c = "E" -> "e"
      [] c = "F" -> "f"
      [] c = "G" -> "g"
      [] c = "H" -> "h"
      [] c = "I" -> "i"
      [] c = "J" -> "j"
      [] c = "K" -> "k"
      [] c = "L" -> "l"
      [] c = "M" -> "m"
      [] c = "N" -> "n"
      [] c = "O" -> "o"
      [] c = "P" -> "p"
      [] c = "Q" -> "q"
      [] c = "R" -> "r"
      [] c = "S" -> "s"
      [] c = "T" -> "t"
      [] c = "U" -> "u"
      [] c = "V" -> "v"
      [] c = "W" -> "w"
      [] c = "X" -> "x"
      [] c = "Y" -> "y"
      [] c = "Z" -> "z"
      [] OTHER -> c

Lower(s) == [i \in 1..Len(s) |-> LowerChar(s[i])]

\* the characters str.strip() removes, which are the class \s of the regular
\* expressions
Whitespace == {" ", "\n", "\t", "\r"}
IsSpace(c) == c \in Whitespace

RECURSIVE LStrip(_)
LStrip(s) ==
    IF s # <<>> /\ IsSpace(Head(s)) THEN LStrip(Tail(s)) ELSE s

RECURSIVE RStrip(_)
RStrip(s) ==
    IF s # <<>> /\ IsSpace(s[Len(s)]) THEN RStrip(SubSeq(s, 1, Len(s) - 1)) ELSE s

Strip(s) == RStrip(LStrip(s))

\* identifier.lower().strip()
Normalize(s) == Strip(Lower(s))

----------------------------------------------------------------------------
(* Small helpers on Python lists and dicts *)

InList(x, l) == \E i \in 1..Len(l) : l[i] = x

AppendAgain(l, x) == Append(l, x)

\* l.append(x) guarded by `if x not in l`
AppendNew(l, x) == IF InList(x, l) THEN l ELSE Append(l, x)

\* d[k] = v on a dict modelled as a function
Put(d, k, v) == [x \in DOMAIN d \cup {k} |-> IF x = k THEN v ELSE d[x]]

\* What result and prev record of a call: the method, its arguments (customer,
\* conv, channel, include_escalated, name, plan), what it returned (ret: a conversation id or 0
\* for None; text: a string) or raised, and what the call observed on its way:
\* the canonical id identity resolution gave (cid), whether a conversation was
\* created, and for resolve/escalate the status the conversation had before and
\* whether it was its customer's most recent one, and for the functions of
\* prototype.py the record of their arguments (args).
NoCall == [op |-> "none", customer |-> <<>>, conv |-> 0, channel |-> "",
           ret |-> 0, raised |-> "", cid |-> <<>>, created |-> FALSE,
           include_escalated |-> FALSE, name |-> "", plan |-> "", text |-> "",
           status_before |-> "", latest |-> FALSE, args |-> <<>>]

\* Before a call of a function of prototype.py: the arguments it is about to
\* be given (args), which the call keeps in result next to what it returns
Pending(args) == [NoCall EXCEPT !.op = "pending", !.args = args]

----------------------------------------------------------------------------
(* Identity linking *)

\* link_identity: the links after the call
LinkedWrong(links, primary_email, alt_id) ==
    LET primary == Normalize(primary_email)
        alt == Normalize(alt_id)
        l1 == IF primary \in DOMAIN links THEN links ELSE Put(links, primary, {})
        l2 == Put(l1, primary, l1[primary] \cup {alt})
        near == UNION {l2[k] : k \in l2[primary] \cap DOMAIN l2} \ {alt}
        l3 == IF alt \in DOMAIN l2 THEN l2 ELSE Put(l2, alt, {})
    IN  Put(l3, alt, l3[alt] \cup {primary} \cup near)

Linked(links, primary_email, alt_id) ==
    LET primary == Normalize(primary_email)
        alt == Normalize(alt_id)
        l1 == IF primary \in DOMAIN links THEN links ELSE Put(links, primary, {})
        l2 == Put(l1, primary, l1[primary] \cup {alt})
        l3 == IF alt \in DOMAIN l2 THEN l2 ELSE Put(l2, alt, {})
    IN  Put(l3, alt, l3[alt] \cup {primary})

\* resolve_customer_id: the values the call can return. Iterating a Python set
\* of strings visits it in hash order, which differs from run to run, so with
\* several linked identifiers in the index any of them can be the first found.
ResolveFollowsChain(index, links, identifier) ==
    LET id == Normalize(identifier)
        hop1 == IF id \in DOMAIN links THEN links[id] ELSE {}
        hop2 == UNION {IF k \in DOMAIN links THEN links[k] ELSE {} : k \in hop1}
    IN  IF id \in DOMAIN index THEN {id}
        ELSE IF (hop1 \cup hop2) \cap DOMAIN index # {}
             THEN (hop1 \cup hop2) \cap DOMAIN index
             ELSE {id}

ResolveChoices(index, links, identifier) ==
    LET id == Normalize(identifier)
    IN  IF id \in DOMAIN index THEN {id}
        ELSE IF id \in DOMAIN links /\ links[id] \cap DOMAIN index # {}
             THEN links[id] \cap DOMAIN index
             ELSE {id}

resolve_customer_id(identifier) ==
    ResolveChoices(customer_index, identity_links, identifier)

----------------------------------------------------------------------------
(* Conversation CRUD *)

\* Conversation(...) as start_conversation constructs it; field defaults of the dataclass
NewConversation(id, cid, channel, ts, customer_name, customer_plan) ==
    [conversation_id |-> id,
     customer_id |-> cid,
     channel |-> channel,
     started_at |-> ts,
     last_message_at |-> ts,
     status |-> "active",
     messages |-> <<>>,
     topics_discussed |-> <<>>,
     sentiment_history |-> <<>>,
     resolution_status |-> "pending",
     escalation_id |-> "",
     escalation_reason |-> "",
     channels_used |-> <<channel>>,
     customer_name |-> customer_name,
     customer_plan |-> customer_plan]

\* str(uuid.uuid4()): an id no conversation has yet
FreshId == Cardinality(DOMAIN conversations) + 1

\* start_conversation: the key the new conversation is filed under
StartKey(customer_id) == Normalize(customer_id)

IndexedUnderAlone(index, cid, id) == Put(index, cid, <<id>>)

\* start_conversation: self._customer_index after the call
IndexedUnder(index, cid, id) ==
    IF cid \in DOMAIN index THEN Put(index, cid, Append(index[cid], id))
    ELSE Put(index, cid, <<id>>)

\* get_active_conversation: allowed_statuses
AllowedStatusesAny(include_escalated) ==
    IF include_escalated THEN {"active", "escalated", "resolved"} ELSE {"active"}

AllowedStatuses(include_escalated) ==
    IF include_escalated THEN {"active", "escalated"} ELSE {"active"}

\* get_active_conversation: the condition under which the scan returns conv
Eligible(conv, channel, allowed) ==
    /\ conv.status \in allowed
    /\ \/ channel = ""
       \/ InList(channel, conv.channels_used)
       \/ channel = conv.channel

RECURSIVE ScanForward(_, _, _, _)
ScanForward(convs, conv_ids, channel, allowed) ==
    IF conv_ids = <<>> THEN 0
    ELSE IF Head(conv_ids) \in DOMAIN convs
            /\ Eligible(convs[Head(conv_ids)], channel, allowed)
         THEN Head(conv_ids)
         ELSE ScanForward(convs, Tail(conv_ids), channel, allowed)

\* get_active_conversation: `for conv_id in reversed(conv_ids)`, 0 for None
RECURSIVE ScanReversed(_, _, _, _)
ScanReversed(convs, conv_ids, channel, allowed) ==
    IF conv_ids = <<>> THEN 0
    ELSE LET conv_id == conv_ids[Len(conv_ids)]
         IN  IF conv_id \in DOMAIN convs /\ Eligible(convs[conv_id], channel, allowed)
             THEN conv_id
             ELSE ScanReversed(convs, SubSeq(conv_ids, 1, Len(conv_ids) - 1),
                               channel, allowed)

\* self._customer_index.get(cid, [])
ConvIdsOf(index, cid) == IF cid \in DOMAIN index THEN index[cid] ELSE <<>>

\* get_active_conversation after identity resolution gave cid
ActiveOf(cid, channel, include_escalated) ==
    ScanReversed(conversations, ConvIdsOf(customer_index, cid), channel,
                 AllowedStatuses(include_escalated))

\* get_latest_conversation(customer_id) = conv_id, once customer_id is resolved
IsLatest(conv_id) ==
    LET conv_ids == ConvIdsOf(customer_index, conversations[conv_id].customer_id)
    IN  conv_ids # <<>> /\ conv_ids[Len(conv_ids)] = conv_id

\* get_or_create_conversation: what it does to the conversation it found
ReusedOverwrites(conv, channel, customer_name, customer_plan) ==
    [conv EXCEPT
        !.channels_used = AppendNew(@, channel),
        !.customer_name = IF customer_name # "" THEN customer_name ELSE @,
        !.customer_plan = IF customer_plan # "" THEN customer_plan ELSE @]

ReusedAlwaysAppends(conv, channel, customer_name, customer_plan) ==
    [conv EXCEPT
        !.channels_used = Append(@, channel),
        !.customer_name = IF customer_name # "" /\ @ = "" THEN customer_name ELSE @,
        !.customer_plan = IF customer_plan # "" /\ @ = "" THEN customer_plan ELSE @]

Reused(conv, channel, customer_name, customer_plan) ==
    [conv EXCEPT
        !.channels_used = AppendNew(@, channel),
        !.customer_name = IF customer_name # "" /\ @ = "" THEN customer_name ELSE @,
        !.customer_plan = IF customer_plan # "" /\ @ = "" THEN customer_plan ELSE @]

----------------------------------------------------------------------------
(* Message handling and state updates *)

\* Message(...) with its timestamp filled in by __post_init__
NewMessage(role, content, channel, sentiment, intent, ticket_id, ts) ==
    [role |-> role, content |-> content, channel |-> channel, timestamp |-> ts,
     sentiment |-> sentiment, intent |-> intent, ticket_id |-> ticket_id]

\* add_message: the intents that are not recorded as topics
LowValueIntents == {"greeting", "unclear", "spam", "general_inquiry"}

\* add_message: the sample appended for a customer message
SampleOneBased(sentiment, ts, n_messages) ==
    [score |-> sentiment, timestamp |-> ts, message_index |-> n_messages]

Sample(sentiment, ts, n_messages) ==
    [score |-> sentiment, timestamp |-> ts, message_index |-> n_messages - 1]

\* add_message: the conversation after the call
AddedInFront(conv, role, content, channel, sentiment, intent, ticket_id, ts) ==
    LET msgs == <<NewMessage(role, content, channel, sentiment, intent, ticket_id, ts)>>
                \o conv.messages
    IN  [conv EXCEPT
            !.messages = msgs,
            !.last_message_at = ts,
            !.channels_used = AppendNew(@, channel),
            !.sentiment_history =
                IF role = "customer" THEN Append(@, Sample(sentiment, ts, Len(msgs)))
                ELSE @,
            !.topics_discussed =
                IF intent # "" /\ intent \notin LowValueIntents THEN AppendNew(@, intent)
                ELSE @]

AddedTo(conv, role, content, channel, sentiment, intent, ticket_id, ts) ==
    LET msgs == Append(conv.messages,
                       NewMessage(role, content, channel, sentiment, intent, ticket_id, ts))
    IN  [conv EXCEPT
            !.messages = msgs,
            !.last_message_at = ts,
            !.channels_used = AppendNew(@, channel),
            !.sentiment_history =
                IF role = "customer" THEN Append(@, Sample(sentiment, ts, Len(msgs)))
                ELSE @,
            !.topics_discussed =
                IF intent # "" /\ intent \notin LowValueIntents THEN AppendNew(@, intent)
                ELSE @]

ResolvedUnlessEscalated(conv) ==
    IF conv.status = "escalated" THEN conv
    ELSE [conv EXCEPT !.status = "resolved", !.resolution_status = "solved"]

\* resolve_conversation: the conversation after the call
Resolved(conv) ==
    [conv EXCEPT !.status = "resolved", !.resolution_status = "solved"]

EscalatedKeepsFirstId(conv, reason, esc_id) ==
    [conv EXCEPT !.status = "escalated", !.resolution_status = "escalated",
                 !.escalation_id = IF @ = "" THEN esc_id ELSE @,
                 !.escalation_reason = reason]

\* escalate_conversation: the conversation after the call
Escalated(conv, reason, esc_id) ==
    [conv EXCEPT !.status = "escalated", !.resolution_status = "escalated",
                 !.escalation_id = esc_id, !.escalation_reason = reason]

----------------------------------------------------------------------------
(* Sentiment trending. Scores are in hundredths, and so are the thresholds. *)

SENTIMENT_DROP_THRESHOLD == -40
CONSECUTIVE_NEGATIVE_LIMIT == 3
NEGATIVE_SENTIMENT_CUTOFF == -20

\* scores = [s["score"] for s in conv.sentiment_history]
ScoresOf(conv) ==
    [i \in 1..Len(conv.sentiment_history) |-> conv.sentiment_history[i].score]

\* the loop over reversed(scores): the negative scores at the end of the list
RECURSIVE ConsecutiveNegativeFromFront(_)
ConsecutiveNegativeFromFront(scores) ==
    IF scores = <<>> THEN 0
    ELSE IF scores[1] < NEGATIVE_SENTIMENT_CUTOFF
         THEN 1 + ConsecutiveNegativeFromFront(Tail(scores))
         ELSE 0

RECURSIVE ConsecutiveNegative(_)
ConsecutiveNegative(scores) ==
    IF scores = <<>> THEN 0
    ELSE IF scores[Len(scores)] < NEGATIVE_SENTIMENT_CUTOFF
         THEN 1 + ConsecutiveNegative(SubSeq(scores, 1, Len(scores) - 1))
         ELSE 0

\* drop = latest_score - first_score, compared with the threshold
DroppedStrictly(scores) ==
    /\ Len(scores) >= 2
    /\ scores[Len(scores)] - scores[1] < SENTIMENT_DROP_THRESHOLD

Dropped(scores) ==
    /\ Len(scores) >= 2
    /\ scores[Len(scores)] - scores[1] <= SENTIMENT_DROP_THRESHOLD

RECURSIVE Sum(_)
Sum(scores) == IF scores = <<>> THEN 0 ELSE Head(scores) + Sum(Tail(scores))

\* the overall trend: the averages of scores[:len//2] and scores[len//2:],
\* 0.2 apart or not (the comparison of the two quotients is made on integers)
Trend(scores) ==
    LET n == Len(scores)
        h == n \div 2
        n1 == IF h > 1 THEN h ELSE 1
        n2 == IF n - h > 1 THEN n - h ELSE 1
        s1 == Sum(SubSeq(scores, 1, h))
        s2 == Sum(SubSeq(scores, h + 1, n))
    IN  IF n >= 2
        THEN IF s2 * n1 < s1 * n2 - 20 * n1 * n2 THEN "declining"
             ELSE IF s2 * n1 > s1 * n2 + 20 * n1 * n2 THEN "improving"
             ELSE "stable"
        ELSE "insufficient_data"

\* check_sentiment_trend: the dict it returns
check_sentiment_trend(convs, conversation_id) ==
    IF conversation_id \notin DOMAIN convs
         \/ convs[conversation_id].sentiment_history = <<>>
    THEN [should_escalate |-> FALSE, reason |-> "", trend |-> "neutral"]
    ELSE LET scores == ScoresOf(convs[conversation_id])
             consecutive_negative == ConsecutiveNegative(scores)
         IN  IF consecutive_negative >= CONSECUTIVE_NEGATIVE_LIMIT
             THEN [should_escalate |-> TRUE,
                   reason |-> "consecutive negative messages",
                   trend |-> "declining",
                   consecutive_negative |-> consecutive_negative]
             ELSE IF Dropped(scores)
             THEN [should_escalate |-> TRUE,
                   reason |-> "Sentiment dropped significantly",
                   trend |-> "declining",
                   drop |-> scores[Len(scores)] - scores[1]]
             ELSE [should_escalate |-> FALSE, reason |-> "", trend |-> Trend(scores)]

----------------------------------------------------------------------------
(* Customer history *)

\* the entry of get_customer_history for one conversation
Summary(conv) ==
    [conversation_id |-> conv.conversation_id,
     channel |-> conv.channel,
     channels_used |-> conv.channels_used,
     started_at |-> conv.started_at,
     last_message_at |-> conv.last_message_at,
     status |-> conv.status,
     resolution_status |-> conv.resolution_status,
     message_count |-> Len(conv.messages),
     topics |-> conv.topics_discussed]

\* the conversations of conv_ids that the store has, in the order of conv_ids
RECURSIVE FoundActive(_, _)
FoundActive(convs, conv_ids) ==
    IF conv_ids = <<>> THEN <<>>
    ELSE (IF Head(conv_ids) \in DOMAIN convs /\ convs[Head(conv_ids)].status = "active"
          THEN <<convs[Head(conv_ids)]>> ELSE <<>>)
         \o FoundActive(convs, Tail(conv_ids))

RECURSIVE Found(_, _)
Found(convs, conv_ids) ==
    IF conv_ids = <<>> THEN <<>>
    ELSE (IF Head(conv_ids) \in DOMAIN convs THEN <<convs[Head(conv_ids)]>> ELSE <<>>)
         \o Found(convs, Tail(conv_ids))

\* all_topics.extend(...) and all_sentiments.extend(...) over the conversations
RECURSIVE Extended(_, _)
Extended(found, field) ==
    IF found = <<>> THEN <<>>
    ELSE Head(found)[field] \o Extended(Tail(found), field)

\* the topics without their repetitions, in the order of their first occurrence
RECURSIVE Unique(_)
Unique(l) ==
    IF l = <<>> THEN <<>>
    ELSE LET before == Unique(SubSeq(l, 1, Len(l) - 1))
         IN  AppendNew(before, l[Len(l)])

\* last_contact after the loop; <<>> for None
RECURSIVE LastContact(_, _)
LastContact(found, last_contact) ==
    IF found = <<>> THEN last_contact
    ELSE LastContact(Tail(found),
                     IF last_contact = <<>> \/ Head(found).last_message_at > last_contact[1]
                     THEN <<Head(found).last_message_at>>
                     ELSE last_contact)

\* sorted(all_sentiments, key=lambda x: x["timestamp"]): samples of equal
\* timestamp keep their order
RECURSIVE SortedByTimestamp(_)
SortedByTimestamp(samples) ==
    IF samples = <<>> THEN <<>>
    ELSE LET init == SortedByTimestamp(SubSeq(samples, 1, Len(samples) - 1))
             x == samples[Len(samples)]
             k == Cardinality({i \in 1..Len(init) : init[i].timestamp <= x.timestamp})
         IN  SubSeq(init, 1, k) \o <<x>> \o SubSeq(init, k + 1, Len(init))

\* get_customer_history after identity resolution gave cid; all_channels, a
\* sorted list without repetitions, is the set of its elements
get_customer_history(cid) ==
    LET conv_ids == ConvIdsOf(customer_index, cid)
        found == Found(conversations, conv_ids)
        all_sentiments == SortedByTimestamp(Extended(found, "sentiment_history"))
    IN  IF conv_ids = <<>>
        THEN [customer_id |-> cid,
              conversation_count |-> 0,
              conversations |-> <<>>,
              all_topics |-> <<>>,
              all_channels |-> {},
              sentiment_trend |-> <<>>,
              last_contact |-> <<>>]
        ELSE [customer_id |-> cid,
              conversation_count |-> Len(found),
              conversations |-> [i \in 1..Len(found) |-> Summary(found[i])],
              all_topics |-> Unique(Extended(found, "topics_discussed")),
              all_channels |->
                  UNION {{found[i].channels_used[j] : j \in 1..Len(found[i].channels_used)} :
                            i \in 1..Len(found)},
              sentiment_trend |->
                  [i \in 1..Len(all_sentiments) |->
                      [score |-> all_sentiments[i].score,
                       timestamp |-> all_sentiments[i].timestamp]],
              last_contact |-> LastContact(found, <<>>)]

----------------------------------------------------------------------------
(* Text (1-Incubation-Phase/src/agent/prototype.py works on str): a text  *)
(* is the sequence of its characters, and the regular expressions of the  *)
(* source are computed on it.                                              *)

UpperChar(c) ==
    CASE c = "a" -> "A"
      [] c = "b" -> "B"
      [] c = "c" -> "C"
      [] c = "d" -> "D"
      [] c = "e" -> "E"
      [] c = "f" -> "F"
      [] c = "g" -> "G"
      [] c = "h" -> "H"
      [] c = "i" -> "I"
      [] c = "j" -> "J"
      [] c = "k" -> "K"
      [] c = "l" -> "L"
      [] c = "m" -> "M"
      [] c = "n" -> "N"
      [] c = "o" -> "O"
      [] c = "p" -> "P"
      [] c = "q" -> "Q"
      [] c = "r" -> "R"
      [] c = "s" -> "S"
      [] c = "t" -> "T"
      [] c = "u" -> "U"
      [] c = "v" -> "V"
      [] c = "w" -> "W"
      [] c = "x" -> "X"
      [] c = "y" -> "Y"
      [] c = "z" -> "Z"
      [] OTHER -> c

\* str.upper()
Upper(s) == [i \in 1..Len(s) |-> UpperChar(s[i])]

Letters ==
    {"a", "b", "c", "d", "e", "f", "g", "h", "i", "j", "k", "l",
     "m", "n", "o", "p", "q", "r", "s", "t", "u", "v", "w", "x",
     "y", "z", "A", "B", "C", "D", "E", "F", "G", "H", "I", "J",
     "K", "L", "M", "N", "O", "P", "Q", "R", "S", "T", "U", "V",
     "W", "X", "Y", "Z"}
Digits == {"0", "1", "2", "3", "4", "5", "6", "7", "8", "9"}

\* the class \w of the regular expressions
WordChars == Letters \cup Digits \cup {"_"}

\* the number of characters at the start of text that are in class
RunLen(text, class) ==
    CHOOSE k \in 0..Len(text) :
        /\ \A i \in 1..k : text[i] \in class
        /\ k = Len(text) \/ text[k + 1] \notin class

\* the maximal runs of characters of a class, in the order of the text
RECURSIVE Runs(_, _)
Runs(text, class) ==
    IF text = <<>> THEN <<>>
    ELSE IF Head(text) \notin class THEN Runs(Tail(text), class)
    ELSE LET k == RunLen(text, class)
         IN  <<SubSeq(text, 1, k)>> \o Runs(SubSeq(text, k + 1, Len(text)), class)

\* " ".join(words) and "\n".join(chunks)
RECURSIVE Join(_, _)
Join(parts, sep) ==
    IF parts = <<>> THEN <<>>
    ELSE IF Len(parts) = 1 THEN parts[1]
    ELSE parts[1] \o sep \o Join(Tail(parts), sep)

\* re.sub(r'[^a-zA-Z]', '', text)
RECURSIVE AlphaChars(_)
AlphaChars(text) ==
    IF text = <<>> THEN <<>>
    ELSE (IF Head(text) \in Letters THEN <<Head(text)>> ELSE <<>>)
         \o AlphaChars(Tail(text))

\* len(alpha_chars) > 15 and alpha_chars == alpha_chars.upper()
AllCaps(text) ==
    LET alpha_chars == AlphaChars(text)
    IN  Len(alpha_chars) > 15 /\ alpha_chars = Upper(alpha_chars)

\* re.search(r'\bw\b', text, re.IGNORECASE) for one of the words w: a maximal
\* run of word characters of the text is w, in upper or lower case
HasWord(text, words) ==
    LET runs == Runs(Lower(text), WordChars)
    IN  \E i \in 1..Len(runs) : runs[i] \in words

----------------------------------------------------------------------------
(* EscalationEngine (prototype.py). Penalties are in hundredths. Of the    *)
(* patterns of each category the tables keep those of the form \bword\b;   *)
(* a category whose patterns all span several words has none here.         *)

\* the words the kept patterns look for, letter by letter
EscalationTerm ==
    [refund |-> <<"r", "e", "f", "u", "n", "d">>,
     discount |-> <<"d", "i", "s", "c", "o", "u", "n", "t">>,
     gdpr |-> <<"g", "d", "p", "r">>,
     sue |-> <<"s", "u", "e">>,
     human |-> <<"h", "u", "m", "a", "n">>,
     garbage |-> <<"g", "a", "r", "b", "a", "g", "e">>,
     worst |-> <<"w", "o", "r", "s", "t">>,
     vanished |-> <<"v", "a", "n", "i", "s", "h", "e", "d">>,
     again |-> <<"a", "g", "a", "i", "n">>]

ALWAYS_CATEGORIES == <<"billing", "legal", "security", "account">>
ALWAYS_ESCALATE_PATTERNS ==
    [billing |-> {EscalationTerm.refund, EscalationTerm.discount},
     legal |-> {EscalationTerm.gdpr, EscalationTerm.sue},
     security |-> {},
     account |-> {}]

LIKELY_CATEGORIES ==
    <<"human_requested", "churn_risk", "angry", "data_loss",
      "critical_enterprise_bug", "account_lockout", "stuck_operations",
      "repeat_contact">>
LIKELY_ESCALATE_PATTERNS ==
    [human_requested |-> {EscalationTerm.human},
     churn_risk |-> {},
     angry |-> {EscalationTerm.garbage, EscalationTerm.worst},
     data_loss |-> {EscalationTerm.vanished},
     critical_enterprise_bug |-> {},
     account_lockout |-> {},
     stuck_operations |-> {},
     repeat_contact |-> {EscalationTerm.again}]

SENTIMENT_ESCALATE_THRESHOLD == -30
SENTIMENT_FLAG_THRESHOLD == -10

MaxAdds(a, b) == a + b

Max(a, b) == IF a >= b THEN a ELSE b

\* the loop over the categories of a table: one reason for each category of
\* which a pattern is found in the message, in the order of the table
RECURSIVE CategoryReasons(_, _, _, _)
CategoryReasons(label, categories, patterns, message) ==
    IF categories = <<>> THEN <<>>
    ELSE (IF HasWord(message, patterns[Head(categories)])
          THEN << <<label, Head(categories)>> >>
          ELSE <<>>)
         \o CategoryReasons(label, Tail(categories), patterns, message)

\* should_escalate, from what check has computed
ShouldEscalateOnMandatoryOnly(always_matched, likely_matched, reasons, confidence_penalty) ==
    always_matched

ShouldEscalate(always_matched, likely_matched, reasons, confidence_penalty) ==
    \/ always_matched
    \/ likely_matched /\ confidence_penalty >= 20
    \/ Len(reasons) >= 2 /\ confidence_penalty >= 20

InContextWhateverMatched(ticket, always_matched) ==
    ticket.customer_plan = "enterprise" /\ ticket.priority = "critical"

\* the conditions under which the enterprise + critical signal is recorded
InContext(ticket, always_matched) ==
    /\ ticket.customer_plan = "enterprise"
    /\ ticket.priority = "critical"
    /\ ~always_matched

\* check(ticket, detected_sentiment): the tuple it returns, as a record; reason
\* is the list of reasons that "; ".join makes the reason text of
check(ticket, detected_sentiment) ==
    LET message == ticket.message \o <<" ">> \o ticket.subject
        always == CategoryReasons("ALWAYS_ESCALATE", ALWAYS_CATEGORIES,
                                  ALWAYS_ESCALATE_PATTERNS, message)
        always_matched == always # <<>>
        p1 == IF always_matched THEN 40 ELSE 0
        likely == CategoryReasons("LIKELY_ESCALATE", LIKELY_CATEGORIES,
                                  LIKELY_ESCALATE_PATTERNS, message)
        likely_matched == likely # <<>>
        p2 == IF likely_matched THEN Max(p1, 25) ELSE p1
        very_negative == detected_sentiment <= SENTIMENT_ESCALATE_THRESHOLD
        negative == ~very_negative /\ detected_sentiment <= SENTIMENT_FLAG_THRESHOLD
        sentiment == IF very_negative THEN << <<"SENTIMENT", "very negative">> >>
                     ELSE IF negative THEN << <<"SENTIMENT", "negative">> >>
                     ELSE <<>>
        p3 == IF very_negative THEN Max(p2, 30)
              ELSE IF negative THEN Max(p2, 10)
              ELSE p2
        all_caps == AllCaps(ticket.message)
        anger == IF all_caps THEN << <<"ANGER_SIGNAL", "message is ALL CAPS">> >>
                 ELSE <<>>
        p4 == IF all_caps THEN Max(p3, 35) ELSE p3
        in_context == InContext(ticket, always_matched)
        context == IF in_context
                   THEN << <<"CONTEXT", "enterprise customer + critical priority">> >>
                   ELSE <<>>
        confidence_penalty == IF in_context THEN Max(p4, 20) ELSE p4
        reasons == always \o likely \o sentiment \o anger \o context
    IN  [should_escalate |-> ShouldEscalate(always_matched, likely_matched,
                                            reasons, confidence_penalty),
         reason |-> reasons,
         confidence_penalty |-> confidence_penalty]

----------------------------------------------------------------------------
(* IntentDetector (prototype.py). A pattern of the form \b(w1|w2)\b is the *)
(* set of its words; of the patterns of each category the table keeps      *)
(* some of that form, and the patterns of greeting, unclear and spam are   *)
(* computed apart.                                                         *)

\* the words the kept patterns look for, letter by letter
IntentTerm ==
    [password |-> <<"p", "a", "s", "s", "w", "o", "r", "d">>,
     login |-> <<"l", "o", "g", "i", "n">>,
     slack |-> <<"s", "l", "a", "c", "k">>,
     github |-> <<"g", "i", "t", "h", "u", "b">>,
     sync |-> <<"s", "y", "n", "c">>,
     offline |-> <<"o", "f", "f", "l", "i", "n", "e">>,
     billing |-> <<"b", "i", "l", "l", "i", "n", "g">>,
     charge |-> <<"c", "h", "a", "r", "g", "e">>,
     charged |-> <<"c", "h", "a", "r", "g", "e", "d">>,
     plan |-> <<"p", "l", "a", "n">>,
     invoice |-> <<"i", "n", "v", "o", "i", "c", "e">>,
     create |-> <<"c", "r", "e", "a", "t", "e">>,
     export |-> <<"e", "x", "p", "o", "r", "t">>,
     bug |-> <<"b", "u", "g">>,
     broken |-> <<"b", "r", "o", "k", "e", "n">>,
     error |-> <<"e", "r", "r", "o", "r">>,
     suggestion |-> <<"s", "u", "g", "g", "e", "s", "t", "i", "o", "n">>,
     compliance |-> <<"c", "o", "m", "p", "l", "i", "a", "n", "c", "e">>,
     notification |-> <<"n", "o", "t", "i", "f", "i", "c", "a", "t", "i", "o", "n">>,
     alert |-> <<"a", "l", "e", "r", "t">>,
     mobile |-> <<"m", "o", "b", "i", "l", "e">>,
     android |-> <<"a", "n", "d", "r", "o", "i", "d">>,
     hi |-> <<"h", "i">>,
     hello |-> <<"h", "e", "l", "l", "o">>,
     hey |-> <<"h", "e", "y">>,
     buy |-> <<"b", "u", "y">>,
     cheap |-> <<"c", "h", "e", "a", "p">>,
     click |-> <<"c", "l", "i", "c", "k">>,
     now |-> <<"n", "o", "w">>,
     tempmail |-> <<"t", "e", "m", "p", "m", "a", "i", "l">>]
dot_biz == <<".", "b", "i", "z">>

INTENT_ORDER ==
    <<"password_reset", "integration_issue", "sync_problem", "billing_inquiry",
      "how_to", "bug_report", "feature_request", "data_concern",
      "notification_issue", "mobile_issue", "greeting", "unclear", "spam">>

INTENT_PATTERNS ==
    [password_reset |-> {{IntentTerm.password}, {IntentTerm.login}},
     integration_issue |-> {{IntentTerm.slack}, {IntentTerm.github}},
     sync_problem |-> {{IntentTerm.sync}, {IntentTerm.offline}},
     billing_inquiry |-> {{IntentTerm.billing}, {IntentTerm.charge, IntentTerm.charged}, {EscalationTerm.refund}, {IntentTerm.plan},
                          {IntentTerm.invoice}, {EscalationTerm.discount}},
     how_to |-> {{IntentTerm.create}, {IntentTerm.export}},
     bug_report |-> {{IntentTerm.bug}, {IntentTerm.broken}, {IntentTerm.error}},
     feature_request |-> {{IntentTerm.suggestion}},
     data_concern |-> {{EscalationTerm.gdpr}, {IntentTerm.compliance}},
     notification_issue |-> {{IntentTerm.notification}, {IntentTerm.alert}},
     mobile_issue |-> {{IntentTerm.mobile}, {IntentTerm.android}},
     greeting |-> {},
     unclear |-> {},
     spam |-> {}]

\* pat is in text at position i
StartsAt(text, i, pat) ==
    /\ i + Len(pat) - 1 <= Len(text)
    /\ SubSeq(text, i, i + Len(pat) - 1) = pat

\* re.search of a literal
Contains(text, pat) == \E i \in 1..Len(text) : StartsAt(text, i, pat)

\* re.search of a\s*b
ContainsSpaced(text, a, b) ==
    \E i \in 1..Len(text) :
        /\ StartsAt(text, i, a)
        /\ \E j \in (i + Len(a))..Len(text) :
              /\ \A k \in (i + Len(a))..(j - 1) : text[k] \in Whitespace
              /\ StartsAt(text, j, b)

\* text without the characters of class at its end
RECURSIVE WithoutTrailing(_, _)
WithoutTrailing(text, class) ==
    IF text # <<>> /\ text[Len(text)] \in class
    THEN WithoutTrailing(SubSeq(text, 1, Len(text) - 1), class)
    ELSE text

\* r'^[\s]*(hi|hello|hey|good\s*(morning|afternoon|evening))[\s!.,]*$', of
\* which the alternatives hi, hello and hey are kept
IsGreeting(text) ==
    WithoutTrailing(LStrip(text), Whitespace \cup {"!", ".", ","})
        \in {IntentTerm.hi, IntentTerm.hello, IntentTerm.hey}

\* r'^.{0,5}$': at most 5 characters other than a newline, and at most one
\* newline after them
IsUnclear(text) ==
    LET line == IF text # <<>> /\ text[Len(text)] = "\n"
                THEN SubSeq(text, 1, Len(text) - 1) ELSE text
    IN  Len(line) <= 5 /\ \A i \in 1..Len(line) : line[i] # "\n"

\* the two patterns of spam, of which the alternatives buy\s*cheap,
\* click\s*now, \.biz and tempmail are kept
SpamOffer(text) ==
    ContainsSpaced(text, IntentTerm.buy, IntentTerm.cheap) \/ ContainsSpaced(text, IntentTerm.click, IntentTerm.now)
SpamAddress(text) == Contains(text, dot_biz) \/ Contains(text, IntentTerm.tempmail)

\* the score of an intent: the number of its patterns found in the message
Score(intent, message_lower) ==
    Cardinality({pat \in INTENT_PATTERNS[intent] : HasWord(message_lower, pat)})
    + (IF intent = "greeting" /\ IsGreeting(message_lower) THEN 1 ELSE 0)
    + (IF intent = "unclear" /\ IsUnclear(message_lower) THEN 1 ELSE 0)
    + (IF intent = "spam" /\ SpamOffer(message_lower) THEN 1 ELSE 0)
    + (IF intent = "spam" /\ SpamAddress(message_lower) THEN 1 ELSE 0)

\* max(scores, key=scores.get): the first of the intents with the highest
\* score, in the order of the dict
HighestLastDeclared(scores) ==
    LET best == CHOOSE i \in 1..Len(INTENT_ORDER) :
                    /\ \A j \in 1..Len(INTENT_ORDER) :
                          scores[INTENT_ORDER[j]] <= scores[INTENT_ORDER[i]]
                    /\ \A j \in (i + 1)..Len(INTENT_ORDER) :
                          scores[INTENT_ORDER[j]] < scores[INTENT_ORDER[i]]
    IN  INTENT_ORDER[best]

Highest(scores) ==
    LET best == CHOOSE i \in 1..Len(INTENT_ORDER) :
                    /\ \A j \in 1..Len(INTENT_ORDER) :
                          scores[INTENT_ORDER[j]] <= scores[INTENT_ORDER[i]]
                    /\ \A j \in 1..(i - 1) :
                          scores[INTENT_ORDER[j]] < scores[INTENT_ORDER[i]]
    IN  INTENT_ORDER[best]

\* detect(message)
detect(message) ==
    LET message_lower == Normalize(message)
        scores == [intent \in DOMAIN INTENT_PATTERNS |-> Score(intent, message_lower)]
    IN  IF \A intent \in DOMAIN scores : scores[intent] = 0 THEN "general_inquiry"
        ELSE IF scores["spam"] >= 2 THEN "spam"
        ELSE Highest(scores)

----------------------------------------------------------------------------
(* SentimentAnalyzer (prototype.py; _analyze_sentiment_score of             *)
(* 3-Specialization-Phase/production/agent/tools.py is the same code).      *)
(* The two accumulators are in thousandths, the multipliers of the          *)
(* intensifiers in tenths, the score returned in hundredths. The tables     *)
(* keep some of the words of the source, with their weights.                *)

\* the words of the kept table entries, letter by letter
SentimentTerm ==
    [love |-> <<"l", "o", "v", "e">>,
     great |-> <<"g", "r", "e", "a", "t">>,
     good |-> <<"g", "o", "o", "d">>,
     terrible |-> <<"t", "e", "r", "r", "i", "b", "l", "e">>,
     not |-> <<"n", "o", "t">>,
     no |-> <<"n", "o">>,
     never |-> <<"n", "e", "v", "e", "r">>,
     very |-> <<"v", "e", "r", "y">>,
     extremely |-> <<"e", "x", "t", "r", "e", "m", "e", "l", "y">>,
     so |-> <<"s", "o">>]

POSITIVE_WORDS == (SentimentTerm.love :> 2) @@ (SentimentTerm.great :> 1) @@ (SentimentTerm.good :> 1)
NEGATIVE_WORDS == (SentimentTerm.terrible :> 3) @@ (IntentTerm.broken :> 2) @@ (IntentTerm.bug :> 1)
NEGATION_WORDS == {SentimentTerm.not, <<"n", "'", "t">>, SentimentTerm.no, SentimentTerm.never}
INTENSIFIERS == (SentimentTerm.very :> 15) @@ (SentimentTerm.extremely :> 20) @@ (SentimentTerm.so :> 13)

\* the characters of r"[a-z']+"
LowerLettersAndApostrophe ==
    {c \in Letters : LowerChar(c) = c} \cup {"'"}

\* prev_word.endswith("n't")
EndsWithNt(word) ==
    /\ Len(word) >= 3
    /\ SubSeq(word, Len(word) - 2, Len(word)) = <<"n", "'", "t">>

\* the body of the loop for the i-th word: what it adds to pos_score and to
\* neg_score
Added(words, i) ==
    LET word == words[i]
        prev_word == IF i > 1 THEN words[i - 1] ELSE <<>>
        prev_prev_word == IF i > 2 THEN words[i - 2] ELSE <<>>
        multiplier == IF prev_word \in DOMAIN INTENSIFIERS THEN INTENSIFIERS[prev_word]
                      ELSE 10
        negated == \/ prev_word \in NEGATION_WORDS
                   \/ EndsWithNt(prev_word)
                   \/ prev_prev_word \in NEGATION_WORDS
        positive == IF word \in DOMAIN POSITIVE_WORDS
                    THEN POSITIVE_WORDS[word] * multiplier * 100 ELSE 0
        negative == IF word \in DOMAIN NEGATIVE_WORDS
                    THEN NEGATIVE_WORDS[word] * multiplier * 100 ELSE 0
    IN  [pos |-> (IF negated THEN 0 ELSE positive)
                 + (IF negated THEN (negative * 3) \div 10 ELSE 0),
         neg |-> (IF negated THEN (positive * 5) \div 10 ELSE 0)
                 + (IF negated THEN 0 ELSE negative)]

\* text.count('!')
RECURSIVE CountOf(_, _)
CountOf(text, c) ==
    IF text = <<>> THEN 0
    ELSE (IF Head(text) = c THEN 1 ELSE 0) + CountOf(Tail(text), c)

\* pos_score and neg_score when they are normalized: after the loop, the
\* capitals and the exclamation marks
Accumulators(text) ==
    LET words == Runs(Lower(text), LowerLettersAndApostrophe)
        pos1 == Sum([i \in 1..Len(words) |-> Added(words, i).pos])
        neg1 == Sum([i \in 1..Len(words) |-> Added(words, i).neg])
        neg2 == IF AllCaps(text) THEN neg1 + 5000 ELSE neg1
        amplified == CountOf(text, "!") >= 3
    IN  [pos |-> IF amplified /\ ~(neg2 > pos1) /\ pos1 > neg2
                 THEN (pos1 * 12) \div 10 ELSE pos1,
         neg |-> IF amplified /\ neg2 > pos1 THEN (neg2 * 13) \div 10 ELSE neg2]

\* round(x, 2) of x = num / den, in hundredths: the nearest hundredth, and
\* either neighbour when x is half-way between two, where the binary value of
\* the float decides
Round2(num, den) ==
    LET f == (100 * num) \div den
        r == 100 * num - f * den
    IN  IF 2 * r < den THEN {f}
        ELSE IF 2 * r > den THEN {f + 1}
        ELSE {f, f + 1}

\* the score, from the two accumulators
NormalizedFromHalf(pos_score, neg_score) ==
    LET total == pos_score + neg_score
        num == pos_score - neg_score
        clamped == IF num > total THEN total ELSE IF num < -total THEN -total ELSE num
    IN  IF total = 0 THEN {50} ELSE Round2(clamped, total)

Normalized(pos_score, neg_score) ==
    LET total == pos_score + neg_score
        num == pos_score - neg_score
        clamped == IF num > total THEN total ELSE IF num < -total THEN -total ELSE num
    IN  IF total = 0 THEN {0} ELSE Round2(clamped, total)

\* analyze(text): the scores the computation on floats can give
analyze(text) ==
    IF text = <<>> \/ Len(Strip(text)) < 2 THEN {0}
    ELSE IF Runs(Lower(text), LowerLettersAndApostrophe) = <<>> THEN {0}
    ELSE Normalized(Accumulators(text).pos, Accumulators(text).neg)

----------------------------------------------------------------------------
(* ResponseFormatter._whatsapp_truncate (prototype.py; _whatsapp_truncate  *)
(* of 4-Render-Deploy/agent/formatters.py is the same code)                *)

\* "\n\nWant me to explain more?"
CONTINUATION ==
    <<"\n", "\n", "W", "a", "n", "t", " ", "m",
        "e", " ", "t", "o", " ", "e", "x", "p", "l", "a", "i", "n", " ", "m", "o", "r", "e", "?">>
ELLIPSIS == <<".", ".", ".">>

\* a match of r'(?<=[.!?])(?<!\d\.)(?<!\d\d\.)\s+' starts at position p: white
\* space that follows ".", "!" or "?", unless a digit is before the "."
SentenceBreak(text, p) ==
    /\ p >= 2
    /\ text[p] \in Whitespace
    /\ text[p - 1] \in {".", "!", "?"}
    /\ ~(p >= 3 /\ text[p - 1] = "." /\ text[p - 2] \in Digits)

\* re.split of that pattern
RECURSIVE Sentences(_)
Sentences(text) ==
    IF \E p \in 1..Len(text) : SentenceBreak(text, p)
    THEN LET p == CHOOSE q \in 1..Len(text) :
                      /\ SentenceBreak(text, q)
                      /\ \A r \in 1..(q - 1) : ~SentenceBreak(text, r)
             rest == SubSeq(text, p, Len(text))
             after == SubSeq(rest, RunLen(rest, Whitespace) + 1, Len(rest))
         IN  <<SubSeq(text, 1, p - 1)>> \o Sentences(after)
    ELSE <<text>>

\* s.split('\n')
RECURSIVE Lines(_)
Lines(s) ==
    IF \E i \in 1..Len(s) : s[i] = "\n"
    THEN LET i == CHOOSE j \in 1..Len(s) :
                      s[j] = "\n" /\ \A k \in 1..(j - 1) : s[k] # "\n"
         IN  <<SubSeq(s, 1, i - 1)>> \o Lines(SubSeq(s, i + 1, Len(s)))
    ELSE <<s>>

\* the parts that are left of a list of parts when each is stripped and the
\* empty ones are dropped
RECURSIVE Stripped(_)
Stripped(parts) ==
    IF parts = <<>> THEN <<>>
    ELSE (IF Strip(Head(parts)) # <<>> THEN <<Strip(Head(parts))>> ELSE <<>>)
         \o Stripped(Tail(parts))

\* chunks: the lines of the sentences
RECURSIVE Chunks(_)
Chunks(sentences) ==
    IF sentences = <<>> THEN <<>>
    ELSE Stripped(Lines(Head(sentences))) \o Chunks(Tail(sentences))

\* text.split()
Words(text) == Runs(text, {text[i] : i \in 1..Len(text)} \ Whitespace)

\* the two loops that take chunks, or words, as long as they fit in limit with
\* one separator between two of them
RECURSIVE PackedOneOver(_, _, _, _)
PackedOneOver(parts, limit, taken, current_len) ==
    IF parts = <<>> THEN taken
    ELSE LET new_len == current_len + Len(Head(parts))
                        + (IF taken # <<>> THEN 1 ELSE 0)
         IN  IF new_len <= limit + 1
             THEN PackedOneOver(Tail(parts), limit, Append(taken, Head(parts)), new_len)
             ELSE taken

RECURSIVE Packed(_, _, _, _)
Packed(parts, limit, taken, current_len) ==
    IF parts = <<>> THEN taken
    ELSE LET new_len == current_len + Len(Head(parts))
                        + (IF taken # <<>> THEN 1 ELSE 0)
         IN  IF new_len <= limit
             THEN Packed(Tail(parts), limit, Append(taken, Head(parts)), new_len)
             ELSE taken

\* _whatsapp_truncate(text, max_chars), for max_chars >= 0
whatsapp_truncate(text, max_chars) ==
    IF Len(text) <= max_chars THEN text
    ELSE LET taken == Packed(Chunks(Sentences(text)), max_chars, <<>>, 0)
             truncated == Join(taken, <<"\n">>)
             result_words == Packed(Words(text), max_chars - 25, <<>>, 0)
         IN  IF taken # <<>>
             THEN IF truncated # text THEN truncated \o CONTINUATION ELSE truncated
             ELSE IF result_words # <<>>
             THEN Join(result_words, <<" ">>) \o ELLIPSIS \o CONTINUATION
             ELSE SubSeq(text, 1, max_chars)

----------------------------------------------------------------------------
(* CustomerSuccessAgent.handle_ticket_with_context (prototype.py). The    *)
(* knowledge base search and the confidence score read nothing of the     *)
(* store and write nothing to it; of the reply text the model keeps       *)
(* whether it is the spam notice.                                          *)

\* get_or_create_conversation as handle_ticket_with_context calls it, once
\* the identifier is resolved to cid: the conversation obtained and the store
\* after the call
Obtained(cid, customer_id, channel, customer_name, customer_plan, t) ==
    LET found == ActiveOf(cid, "", TRUE)
        key == StartKey(customer_id)
    IN  IF found # 0
        THEN [id |-> found, created |-> FALSE,
              conversations |->
                  [conversations EXCEPT
                      ![found] = Reused(@, channel, customer_name, customer_plan)],
              customer_index |-> customer_index]
        ELSE [id |-> FreshId, created |-> TRUE,
              conversations |->
                  Put(conversations, FreshId,
                      NewConversation(FreshId, key, channel, t,
                                      customer_name, customer_plan)),
              customer_index |-> IndexedUnder(customer_index, key, FreshId)]

MergedRulesOnly(decision, trend) == decision

\* "Merge sentiment-trend escalation": the decision of check, the trend taken
\* into account
Merged(decision, trend) ==
    IF trend.should_escalate /\ ~decision.should_escalate
    THEN [should_escalate |-> TRUE,
          reason |-> Append(decision.reason, <<"SENTIMENT_TREND", trend.reason>>),
          confidence_penalty |-> Max(decision.confidence_penalty, 30)]
    ELSE decision

\* _generate_full_response
ResponseText(detected_intent) ==
    IF detected_intent = "spam" THEN "[SPAM DETECTED]" ELSE "reply"

ClosedWhateverDecided(convs, id, decision, generated) ==
    [convs EXCEPT ![id] = Escalated(@, decision.reason, generated)]

\* "Update conversation state if escalated"
Closed(convs, id, decision, generated) ==
    IF decision.should_escalate
    THEN [convs EXCEPT ![id] = Escalated(@, decision.reason, generated)]
    ELSE convs

----------------------------------------------------------------------------
(* The public methods as actions. t is the clock as the call reads it. *)

ClockReads(t) == t >= now

\* link_identity(primary_email, alt_id)
LinkIdentity(primary_email, alt_id) ==
    /\ identity_links' = Linked(identity_links, primary_email, alt_id)
    /\ result' = [NoCall EXCEPT !.op = "link_identity", !.customer = primary_email,
                                !.cid = alt_id]
    /\ UNCHANGED <<conversations, customer_index, now, was_resolved>>

\* resolve_customer_id(identifier)
ResolveCustomerId(identifier) ==
    /\ \E cid \in resolve_customer_id(identifier) :
          result' = [NoCall EXCEPT !.op = "resolve_customer_id",
                                   !.customer = identifier, !.cid = cid]
    /\ UNCHANGED <<conversations, customer_index, identity_links, now, was_resolved>>

\* start_conversation(customer_id, channel, customer_name, customer_plan)
StartConversation(customer_id, channel, customer_name, customer_plan, t) ==
    /\ ClockReads(t)
    /\ LET cid == StartKey(customer_id)
           id == FreshId
       IN  /\ conversations' =
                Put(conversations, id,
                    NewConversation(id, cid, channel, t, customer_name, customer_plan))
           /\ customer_index' = IndexedUnder(customer_index, cid, id)
           /\ result' = [NoCall EXCEPT !.op = "start_conversation",
                                       !.customer = customer_id, !.channel = channel,
                                       !.name = customer_name, !.plan = customer_plan,
                                       !.ret = id, !.cid = cid, !.created = TRUE]
    /\ now' = t
    /\ UNCHANGED <<identity_links, was_resolved>>

\* get_active_conversation(customer_id, channel, include_escalated)
GetActiveConversation(customer_id, channel, include_escalated) ==
    /\ \E cid \in resolve_customer_id(customer_id) :
          result' = [NoCall EXCEPT !.op = "get_active_conversation",
                                   !.customer = customer_id, !.channel = channel,
                                   !.ret = ActiveOf(cid, channel, include_escalated),
                                   !.cid = cid, !.include_escalated = include_escalated]
    /\ UNCHANGED <<conversations, customer_index, identity_links, now, was_resolved>>

\* get_or_create_conversation(customer_id, channel, customer_name, customer_plan)
GetOrCreateConversation(customer_id, channel, customer_name, customer_plan, t) ==
    \E cid \in resolve_customer_id(customer_id) :
      LET found == ActiveOf(cid, "", TRUE)
      IN  IF found # 0
          THEN /\ conversations' =
                    [conversations EXCEPT
                        ![found] = Reused(@, channel, customer_name, customer_plan)]
               /\ result' = [NoCall EXCEPT !.op = "get_or_create_conversation",
                                           !.customer = customer_id,
                                           !.channel = channel,
                                           !.name = customer_name,
                                           !.plan = customer_plan,
                                           !.ret = found, !.cid = cid]
               /\ UNCHANGED <<customer_index, identity_links, now, was_resolved>>
          ELSE /\ ClockReads(t)
               /\ LET key == StartKey(customer_id)
                      id == FreshId
                  IN  /\ conversations' =
                           Put(conversations, id,
                               NewConversation(id, key, channel, t,
                                               customer_name, customer_plan))
                      /\ customer_index' = IndexedUnder(customer_index, key, id)
                      /\ result' = [NoCall EXCEPT !.op = "get_or_create_conversation",
                                                  !.customer = customer_id,
                                                  !.channel = channel,
                                                  !.name = customer_name,
                                                  !.plan = customer_plan,
                                                  !.ret = id, !.cid = cid,
                                                  !.created = TRUE]
               /\ now' = t
               /\ UNCHANGED <<identity_links, was_resolved>>

\* add_message(conversation_id, role, content, channel, sentiment, intent, ticket_id)
AddMessage(conversation_id, role, content, channel, sentiment, intent, ticket_id, t) ==
    IF conversation_id \notin DOMAIN conversations
    THEN /\ result' = [NoCall EXCEPT !.op = "add_message", !.conv = conversation_id,
                                     !.channel = channel, !.raised = "ValueError"]
         /\ UNCHANGED <<conversations, customer_index, identity_links, now, was_resolved>>
    ELSE /\ ClockReads(t)
         /\ conversations' =
              [conversations EXCEPT
                  ![conversation_id] =
                      AddedTo(@, role, content, channel, sentiment, intent, ticket_id, t)]
         /\ result' = [NoCall EXCEPT !.op = "add_message", !.conv = conversation_id,
                                     !.channel = channel, !.text = role]
         /\ now' = t
         /\ UNCHANGED <<customer_index, identity_links, was_resolved>>

\* resolve_conversation(conversation_id)
ResolveConversation(conversation_id) ==
    /\ IF conversation_id \in DOMAIN conversations
       THEN /\ conversations' =
                 [conversations EXCEPT ![conversation_id] = Resolved(@)]
            /\ was_resolved' = was_resolved \cup {conversation_id}
       ELSE UNCHANGED <<conversations, was_resolved>>
    /\ result' =
         IF conversation_id \in DOMAIN conversations
         THEN [NoCall EXCEPT !.op = "resolve_conversation", !.conv = conversation_id,
                             !.status_before = conversations[conversation_id].status,
                             !.latest = IsLatest(conversation_id)]
         ELSE [NoCall EXCEPT !.op = "resolve_conversation", !.conv = conversation_id]
    /\ UNCHANGED <<customer_index, identity_links, now>>

\* escalate_conversation(conversation_id, reason, escalation_id); generated is the
\* id f"ESC-{uuid.uuid4().hex[:8].upper()}" would produce
EscalateConversation(conversation_id, reason, escalation_id, generated) ==
    IF conversation_id \notin DOMAIN conversations
    THEN /\ result' = [NoCall EXCEPT !.op = "escalate_conversation",
                                     !.conv = conversation_id, !.raised = "ValueError"]
         /\ UNCHANGED <<conversations, customer_index, identity_links, now, was_resolved>>
    ELSE LET esc_id == IF escalation_id # "" THEN escalation_id ELSE generated
         IN  /\ conversations' =
                  [conversations EXCEPT ![conversation_id] = Escalated(@, reason, esc_id)]
             /\ result' = [NoCall EXCEPT !.op = "escalate_conversation",
                                         !.conv = conversation_id, !.text = esc_id,
                                         !.status_before =
                                             conversations[conversation_id].status,
                                         !.latest = IsLatest(conversation_id)]
             /\ UNCHANGED <<customer_index, identity_links, now, was_resolved>>

\* check_sentiment_trend(conversation_id)
CheckSentimentTrend(conversation_id) ==
    /\ result' = [NoCall EXCEPT !.op = "check_sentiment_trend",
                                !.conv = conversation_id,
                                !.ret = check_sentiment_trend(conversations,
                                                              conversation_id)]
    /\ UNCHANGED <<conversations, customer_index, identity_links, now, was_resolved>>

\* get_customer_history(customer_id)
GetCustomerHistory(customer_id) ==
    /\ \E cid \in resolve_customer_id(customer_id) :
          result' = [NoCall EXCEPT !.op = "get_customer_history",
                                   !.customer = customer_id,
                                   !.ret = get_customer_history(cid),
                                   !.cid = cid]
    /\ UNCHANGED <<conversations, customer_index, identity_links, now, was_resolved>>

\* EscalationEngine.check(ticket, detected_sentiment)
Check(ticket, detected_sentiment) ==
    /\ result' = [NoCall EXCEPT !.op = "check",
                                !.args = [ticket |-> ticket,
                                          detected_sentiment |-> detected_sentiment],
                                !.ret = check(ticket, detected_sentiment)]
    /\ UNCHANGED <<conversations, customer_index, identity_links, now, was_resolved>>

\* IntentDetector.detect(message)
Detect(message) ==
    /\ result' = [NoCall EXCEPT !.op = "detect",
                                !.args = [message |-> message],
                                !.ret = detect(message)]
    /\ UNCHANGED <<conversations, customer_index, identity_links, now, was_resolved>>

\* SentimentAnalyzer.analyze(text)
Analyze(text) ==
    /\ \E score \in analyze(text) :
          result' = [NoCall EXCEPT !.op = "analyze",
                                   !.args = [text |-> text],
                                   !.ret = score]
    /\ UNCHANGED <<conversations, customer_index, identity_links, now, was_resolved>>

\* ResponseFormatter._whatsapp_truncate(text, max_chars)
WhatsappTruncate(text, max_chars) ==
    /\ result' = [NoCall EXCEPT !.op = "_whatsapp_truncate",
                                !.args = [text |-> text, max_chars |-> max_chars],
                                !.ret = whatsapp_truncate(text, max_chars)]
    /\ UNCHANGED <<conversations, customer_index, identity_links, now, was_resolved>>

\* handle_ticket_with_context(ticket) of an agent connected to the manager;
\* t0, t1 and t2 are the clock as get_or_create_conversation and the two
\* add_message calls read it
HandleTicketWithContext(ticket, generated, t0, t1, t2) ==
    LET customer_id == Normalize(ticket.customer_email)
    IN  \E cid \in resolve_customer_id(customer_id),
           detected_sentiment \in analyze(ticket.message \o <<" ">> \o ticket.subject) :
          LET conv == Obtained(cid, customer_id, ticket.channel,
                               ticket.customer_name, ticket.customer_plan, t0)
              detected_intent == detect(ticket.message)
              stored == [conv.conversations EXCEPT
                            ![conv.id] =
                                AddedTo(@, "customer", ticket.message, ticket.channel,
                                        detected_sentiment, detected_intent,
                                        ticket.id, t1)]
              trend == check_sentiment_trend(stored, conv.id)
              decision == Merged(check(ticket, detected_sentiment), trend)
              replied == [stored EXCEPT
                             ![conv.id] =
                                 AddedTo(@, "agent", ResponseText(detected_intent),
                                         ticket.channel, 0, "", ticket.id, t2)]
          IN  /\ ClockReads(t0) /\ t0 <= t1 /\ t1 <= t2
              /\ conversations' = Closed(replied, conv.id, decision, generated)
              /\ customer_index' = conv.customer_index
              /\ now' = t2
              /\ result' = [NoCall EXCEPT
                               !.op = "handle_ticket_with_context",
                               !.args = [ticket |-> ticket],
                               !.conv = conv.id,
                               !.cid = cid,
                               !.created = conv.created,
                               !.status_before =
                                   IF conv.created THEN "active"
                                   ELSE conversations[conv.id].status,
                               !.ret = [should_escalate |-> decision.should_escalate,
                                        escalation_reason |-> decision.reason,
                                        confidence_penalty |-> decision.confidence_penalty,
                                        detected_sentiment |-> detected_sentiment,
                                        detected_intent |-> detected_intent]]
              /\ UNCHANGED <<identity_links, was_resolved>>

----------------------------------------------------------------------------
(* The methods as a caller's steps, for callers that run at the same time. *)
(* A step is what a method does between two accesses to the dictionaries    *)
(* the callers share; a caller, named by its customer, works on the          *)
(* conversation it obtained last.                                            *)

\* a caller between two calls
Idle == [pc |-> "idle", id |-> 0, local |-> <<>>, log |-> <<>>]

UnusedIdOfStore(convs, held) == Cardinality(DOMAIN convs) + 1

\* str(uuid.uuid4()): an id that no conversation has, in the store or under
\* construction by another caller
UnusedId(convs, held) ==
    CHOOSE id \in 1..(Cardinality(DOMAIN convs) + Cardinality(held) + 1) :
        id \notin DOMAIN convs \cup held

\* the ids of the conversations under construction
Held == {threads[x].local.conversation_id :
            x \in {y \in DOMAIN threads : threads[y].pc \in {"store"}}}

\* get_or_create_conversation(self, channel) up to the return of
\* get_active_conversation: the conversation found is updated and returned, or
\* start_conversation is entered and constructs the Conversation
ObtainBegin(self, channel, t) ==
    /\ threads[self].pc = "idle"
    /\ \E cid \in resolve_customer_id(self) :
          LET found == ActiveOf(cid, "", TRUE)
          IN  IF found # 0
              THEN /\ conversations' =
                        [conversations EXCEPT ![found] = Reused(@, channel, "", "")]
                   /\ threads' =
                        [threads EXCEPT
                            ![self].id = found,
                            ![self].log = Append(@, <<"get_or_create_conversation", channel>>)]
                   /\ UNCHANGED now
              ELSE /\ ClockReads(t)
                   /\ threads' =
                        [threads EXCEPT
                            ![self].pc = "store",
                            ![self].local =
                                NewConversation(UnusedId(conversations, Held),
                                                StartKey(self), channel, t, "", ""),
                            ![self].log = Append(@, <<"get_or_create_conversation", channel>>)]
                   /\ now' = t
                   /\ UNCHANGED conversations
    /\ UNCHANGED <<customer_index, identity_links, result, prev, was_resolved>>

\* start_conversation: self._conversations[conv.conversation_id] = conv
StartStore(self) ==
    /\ threads[self].pc = "store"
    /\ conversations' = Put(conversations, threads[self].local.conversation_id,
                            threads[self].local)
    /\ threads' = [threads EXCEPT ![self].pc = "index"]
    /\ UNCHANGED <<customer_index, identity_links, now, result, prev, was_resolved>>

\* start_conversation: if cid not in self._customer_index: self._customer_index[cid] = []
StartIndex(self) ==
    /\ threads[self].pc = "index"
    /\ customer_index' =
          IF threads[self].local.customer_id \in DOMAIN customer_index THEN customer_index
          ELSE Put(customer_index, threads[self].local.customer_id, <<>>)
    /\ threads' = [threads EXCEPT ![self].pc = "append"]
    /\ UNCHANGED <<conversations, identity_links, now, result, prev, was_resolved>>

\* start_conversation: self._customer_index[cid].append(conv.conversation_id), and the return
StartAppend(self) ==
    /\ threads[self].pc = "append"
    /\ customer_index' =
          [customer_index EXCEPT
              ![threads[self].local.customer_id] =
                  Append(@, threads[self].local.conversation_id)]
    /\ threads' = [threads EXCEPT ![self].pc = "idle",
                                  ![self].id = threads[self].local.conversation_id,
                                  ![self].local = <<>>]
    /\ UNCHANGED <<conversations, identity_links, now, result, prev, was_resolved>>

\* add_message on the conversation obtained: the Message is constructed, with
\* the clock read by __post_init__
MessageBegin(self, role, content, channel, sentiment, intent, t) ==
    /\ threads[self].pc = "idle"
    /\ threads[self].id \in DOMAIN conversations
    /\ ClockReads(t)
    /\ threads' =
          [threads EXCEPT
              ![self].pc = "message",
              ![self].local = NewMessage(role, content, channel, sentiment, intent, "", t),
              ![self].log = Append(@, <<"add_message", role, content, channel,
                                        sentiment, intent>>)]
    /\ now' = t
    /\ UNCHANGED <<conversations, customer_index, identity_links, result, prev, was_resolved>>

\* add_message: the message appended and the conversation updated
MessageAppend(self) ==
    /\ threads[self].pc = "message"
    /\ LET msg == threads[self].local
       IN  conversations' =
              [conversations EXCEPT
                  ![threads[self].id] =
                      AddedTo(@, msg.role, msg.content, msg.channel, msg.sentiment,
                              msg.intent, msg.ticket_id, msg.timestamp)]
    /\ threads' = [threads EXCEPT ![self].pc = "idle", ![self].local = <<>>]
    /\ UNCHANGED <<customer_index, identity_links, now, result, prev, was_resolved>>

\* resolve_conversation on the conversation obtained
ResolveObtained(self) ==
    /\ threads[self].pc = "idle"
    /\ threads[self].id \in DOMAIN conversations
    /\ conversations' = [conversations EXCEPT ![threads[self].id] = Resolved(@)]
    /\ was_resolved' = was_resolved \cup {threads[self].id}
    /\ threads' = [threads EXCEPT ![self].log = Append(@, <<"resolve_conversation">>)]
    /\ UNCHANGED <<customer_index, identity_links, now, result, prev>>

----------------------------------------------------------------------------
(* __init__ *)

Init ==
    /\ conversations = <<>>
    /\ customer_index = <<>>
    /\ identity_links = <<>>
    /\ now = 0
    /\ result = NoCall
    /\ prev = NoCall
    /\ was_resolved = {}
    /\ threads = <<>>

----------------------------------------------------------------------------
(* Specifications *)

\* A step of action A that stays within nc conversations of at most nm messages
Within(A, nc, nm) ==
    /\ A
    /\ Cardinality(DOMAIN conversations') <= nc
    /\ \A c \in DOMAIN conversations' : Len(conversations'[c].messages) <= nm
    /\ UNCHANGED threads

\* Two customers, one of them written in a form lower()/strip() changes
Ids == {<<"a">>, <<"B", " ">>}
Channels == {"gmail", "whatsapp"}

\* The lifecycle of conversations: every public method that changes the store
\* or looks a conversation up, on the ids of the store and on unknown ones.
Call(A) == Within(A, MaxConvs, MaxMsgs) /\ UNCHANGED prev

Next ==
    \/ Call(LinkIdentity(<<"a">>, <<"B", " ">>))
    \/ \E x \in Ids : Call(StartConversation(x, "gmail", "", "", now))
    \/ \E x \in Ids, inc \in BOOLEAN : Call(GetActiveConversation(x, "", inc))
    \/ \E x \in Ids : Call(GetOrCreateConversation(x, "gmail", "", "", now))
    \/ \E c \in 1..MaxConvs :
          Call(AddMessage(c, "customer", "hi", "whatsapp", 0, "", "", now))
    \/ \E c \in 1..MaxConvs : Call(ResolveConversation(c))
    \/ \E c \in 1..MaxConvs : Call(EscalateConversation(c, "angry", "", "ESC-1"))

Spec == Init /\ [][Next]_vars

\* Successive calls: the same methods with the call before the last one kept in
\* prev, for one customer written in two ways and contacted over two channels.
Spellings == {<<"a">>, <<" ", "A">>}

CallAfter(A) == Within(A, MaxConvs, 0) /\ prev' = result

NextPairs ==
    \/ \E x \in Spellings : CallAfter(StartConversation(x, "gmail", "", "", now))
    \/ \E x \in Spellings, ch \in Channels :
          CallAfter(GetOrCreateConversation(x, ch, "", "", now))
    \/ \E c \in 1..MaxConvs : CallAfter(ResolveConversation(c))
    \/ \E c \in 1..MaxConvs : CallAfter(EscalateConversation(c, "angry", "", "ESC-1"))

SpecPairs == Init /\ [][NextPairs]_vars

\* Identity resolution: four identifiers, linked in any way, any of them made a
\* key of the customer index by a first conversation.
LinkIds == {<<"a">>, <<"B", " ">>, <<"c">>, <<"d">>}

CallId(A) == Within(A, MaxConvs, 0) /\ UNCHANGED prev

NextIdentity ==
    \/ \E p \in LinkIds : \E alt \in LinkIds \ {p} : CallId(LinkIdentity(p, alt))
    \/ \E x \in LinkIds : CallId(ResolveCustomerId(x))
    \/ \E x \in LinkIds : CallId(StartConversation(x, "gmail", "", "", now))

SpecIdentity == Init /\ [][NextIdentity]_vars

\* Message histories: customer and agent messages of different sentiment added
\* to the conversations of one customer while the clock advances.
RECURSIVE Total(_, _)
Total(convs, ids) ==
    IF ids = {} THEN 0
    ELSE LET c == CHOOSE x \in ids : TRUE
         IN  Len(convs[c].messages) + Total(convs, ids \ {c})

Times == {t \in 0..MaxClock : t <= now + 1}
Kinds == {<<"agent", 0>>, <<"customer", -30>>, <<"customer", 40>>}

CallAt(A) ==
    /\ Within(A, MaxThreads, MaxHistory)
    /\ Total(conversations', DOMAIN conversations') <= MaxHistory
    /\ UNCHANGED prev

NextMessages ==
    \/ \E t \in Times : CallAt(StartConversation(<<"a">>, "gmail", "", "", t))
    \/ \E t \in Times : CallAt(GetOrCreateConversation(<<"a">>, "gmail", "", "", t))
    \/ \E c \in 1..MaxThreads, k \in Kinds, t \in Times :
          CallAt(AddMessage(c, k[1], "hi", "gmail", k[2], "", "", t))
    \/ \E c \in 1..MaxThreads : CallAt(ResolveConversation(c))
    \/ \E c \in 1..MaxThreads : CallAt(EscalateConversation(c, "angry", "", "ESC-1"))

SpecMessages == Init /\ [][NextMessages]_vars

\* Names and plans: conversations obtained for one customer under different
\* names and plans, or none.
Names == {"", "Ann", "Bob"}
Plans == {"", "pro", "free"}

CallNamed(A) == Within(A, MaxThreads, MaxMsgs) /\ UNCHANGED prev

NextNames ==
    \/ \E n \in Names, pl \in Plans :
          CallNamed(StartConversation(<<"a">>, "gmail", n, pl, now))
    \/ \E n \in Names, pl \in Plans :
          CallNamed(GetOrCreateConversation(<<"a">>, "gmail", n, pl, now))
    \/ \E c \in 1..MaxThreads :
          CallNamed(AddMessage(c, "customer", "hi", "gmail", 0, "", "", now))
    \/ \E c \in 1..MaxThreads : CallNamed(ResolveConversation(c))
    \/ \E c \in 1..MaxThreads : CallNamed(EscalateConversation(c, "angry", "", "ESC-1"))

SpecNames == Init /\ [][NextNames]_vars

\* Sentiment trends: customer messages of scores on both sides of the cutoff
\* (-0.2) and first-to-last differences on both sides of the drop threshold
\* (-0.4), agent messages between them, and the trend asked of a conversation
\* that exists or not.
Scores == {-30, -20, 0, 20}

CallTrend(A) ==
    /\ Within(A, MaxThreads, MaxSamples)
    /\ Total(conversations', DOMAIN conversations') <= MaxSamples
    /\ UNCHANGED prev

NextTrend ==
    \/ CallTrend(StartConversation(<<"a">>, "gmail", "", "", now))
    \/ \E c \in 1..MaxThreads, s \in Scores :
          CallTrend(AddMessage(c, "customer", "hi", "gmail", s, "", "", now))
    \/ \E c \in 1..MaxThreads :
          CallTrend(AddMessage(c, "agent", "hello", "gmail", 0, "", "", now))
    \/ \E c \in 1..MaxThreads + 1 : CallTrend(CheckSentimentTrend(c))

SpecTrend == Init /\ [][NextTrend]_vars

\* The texts made of at most n of the given words, a space between two words
Texts(words, n) ==
    {Join(ws, <<" ">>) : ws \in UNION {[1..k -> words] : k \in 0..n}}

\* The store of a manager that has not been called
Untouched ==
    /\ conversations = <<>>
    /\ customer_index = <<>>
    /\ identity_links = <<>>
    /\ now = 0
    /\ prev = NoCall
    /\ was_resolved = {}
    /\ threads = <<>>

\* A step of A by which a pending call is made
Apply(A) == result.op = "pending" /\ A /\ UNCHANGED <<prev, threads>>

\* Escalation: tickets whose message has a mandatory word in lower case, in
\* upper case or inside a longer word of no table, advisory words of two
\* categories; 15 capital letters and more; a subject with a mandatory word
\* or none; sentiments on both thresholds and above; the plans and
\* priorities of the context rule and others.
EscalationWords ==
    {EscalationTerm.refund, Upper(EscalationTerm.refund), EscalationTerm.refund \o <<"s">>, EscalationTerm.sue, EscalationTerm.again, Upper(EscalationTerm.again),
     Upper(EscalationTerm.garbage)}
Sentiments == {-30, -10, 0}
Tickets ==
    [message : Texts(EscalationWords, MaxWords),
     subject : {<<>>, EscalationTerm.refund},
     customer_plan : {"pro", "enterprise"},
     priority : {"low", "critical"}]

InitEscalation ==
    /\ Untouched
    /\ result \in {Pending([ticket |-> t, detected_sentiment |-> s]) :
                      t \in Tickets, s \in Sentiments}

NextEscalation ==
    Apply(Check(result.args.ticket, result.args.detected_sentiment))

SpecEscalation == InitEscalation /\ [][NextEscalation]_vars

\* Intents: messages with words of two categories, one of them twice in the
\* table, a word in capitals, the two kinds of spam, a greeting, a word of no
\* table, and a space to strip.
IntentWords ==
    {EscalationTerm.refund, IntentTerm.plan, <<"B", "u", "g">>, IntentTerm.buy \o IntentTerm.cheap, IntentTerm.tempmail,
     <<"t", "h", "a", "n", "k", "s">>}
Messages == Texts(IntentWords, MaxTerms) \cup {<<" ">> \o IntentTerm.hi \o <<"!", " ">>}

InitIntent ==
    /\ Untouched
    /\ result \in {Pending([message |-> m]) : m \in Messages}

NextIntent == Apply(Detect(result.args.message))

SpecIntent == InitIntent /\ [][NextIntent]_vars

\* Sentiments: texts of positive and negative words, negated or intensified or
\* not, 16 capital letters and more, three exclamation marks, a word of no
\* table, texts of one character or none, and a character between spaces.
SentimentWords ==
    {SentimentTerm.good, IntentTerm.bug, Upper(SentimentTerm.terrible), SentimentTerm.not, SentimentTerm.so, <<"i", "s", "n", "'", "t">>,
     <<"!", "!", "!">>, <<"a">>}
SentimentTexts == Texts(SentimentWords, MaxWords) \cup {<<" ", "a", " ">>, <<"!">>}

InitSentiment ==
    /\ Untouched
    /\ result \in {Pending([text |-> x]) : x \in SentimentTexts}

NextSentiment == Apply(Analyze(result.args.text))

SpecSentiment == InitSentiment /\ [][NextSentiment]_vars

\* Truncation: texts put together from a letter, a word of 30 letters (longer
\* than a budget from which 25 can be taken), a full stop, a space, a newline
\* and a digit; budgets of nothing, of a sentence of two or three characters,
\* and of more than 25.
LongWord == [i \in 1..30 |-> "a"]
Pieces == {<<"a">>, LongWord, <<".">>, <<" ">>, <<"\n">>, <<"1">>}
RECURSIVE Flat(_)
Flat(pieces) == IF pieces = <<>> THEN <<>> ELSE Head(pieces) \o Flat(Tail(pieces))
Bodies == {Flat(ps) : ps \in UNION {[1..k -> Pieces] : k \in 0..MaxPieces}}
Budgets == {0, 2, 3, 27}

InitTruncate ==
    /\ Untouched
    /\ result \in {Pending([text |-> x, max_chars |-> n]) : x \in Bodies, n \in Budgets}

NextTruncate == Apply(WhatsappTruncate(result.args.text, result.args.max_chars))

SpecTruncate == InitTruncate /\ [][NextTruncate]_vars

\* Customer histories: conversations of two customers, one of them linked to
\* the other or not, started, resolved or escalated and started
\* again, and the history asked under either identifier.
CallHistory(A) == Within(A, MaxConvs, 0) /\ UNCHANGED prev

NextHistory ==
    \/ CallHistory(LinkIdentity(<<"a">>, <<"B", " ">>))
    \/ \E x \in Ids : CallHistory(StartConversation(x, "gmail", "", "", now))
    \/ \E x \in Ids : CallHistory(GetOrCreateConversation(x, "whatsapp", "", "", now))
    \/ \E c \in 1..MaxConvs : CallHistory(ResolveConversation(c))
    \/ \E c \in 1..MaxConvs : CallHistory(EscalateConversation(c, "angry", "", "ESC-1"))
    \/ \E x \in Ids : CallHistory(GetCustomerHistory(x))

SpecHistory == Init /\ [][NextHistory]_vars

\* Active conversations: the conversations of one customer, started on one
\* channel, reused on either, resolved and escalated, and the active one asked
\* for with and without a channel, with and without the escalated ones.
CallActive(A) == Within(A, MaxConvs, 0) /\ UNCHANGED prev

NextActive ==
    \/ CallActive(StartConversation(<<"a">>, "gmail", "", "", now))
    \/ \E ch \in Channels : CallActive(GetOrCreateConversation(<<"a">>, ch, "", "", now))
    \/ \E c \in 1..MaxConvs : CallActive(ResolveConversation(c))
    \/ \E c \in 1..MaxConvs : CallActive(EscalateConversation(c, "angry", "", "ESC-1"))
    \/ \E ch \in {"", "whatsapp"}, inc \in BOOLEAN :
          CallActive(GetActiveConversation(<<"a">>, ch, inc))

SpecActive == Init /\ [][NextActive]_vars

\* Topics: customer and agent messages of every kind of intent (none, the four
\* that are not topics, two that are) added to the conversations of one customer.
Intents == {"", "greeting", "unclear", "spam", "general_inquiry", "how_to", "bug_report"}

NextTopics ==
    \/ CallAt(StartConversation(<<"a">>, "gmail", "", "", now))
    \/ \E c \in 1..MaxThreads, role \in {"customer", "agent"}, intent \in Intents :
          CallAt(AddMessage(c, role, "hi", "gmail", 0, intent, "", now))
    \/ \E c \in 1..MaxThreads : CallAt(ResolveConversation(c))

SpecTopics == Init /\ [][NextTopics]_vars

\* Statuses: the conversations of one customer started, obtained, written to,
\* resolved and escalated in any order, the escalation id supplied or generated.
Supplied == {"", "ESC-7"}
Generated == {"ESC-1", "ESC-2"}

NextStatus ==
    \/ CallNamed(StartConversation(<<"a">>, "gmail", "", "", now))
    \/ CallNamed(GetOrCreateConversation(<<"a">>, "gmail", "", "", now))
    \/ \E c \in 1..MaxThreads :
          CallNamed(AddMessage(c, "customer", "hi", "gmail", 0, "", "", now))
    \/ \E c \in 1..MaxThreads + 1 : CallNamed(ResolveConversation(c))
    \/ \E c \in 1..MaxThreads + 1, reason \in {"", "angry"}, id \in Supplied,
          g \in Generated :
          CallNamed(EscalateConversation(c, reason, id, g))

SpecStatus == Init /\ [][NextStatus]_vars

\* Conversations obtained only through get_or_create_conversation, for two
\* customers linked or not, written to, resolved and escalated in any order.
NextObtained ==
    \/ Call(LinkIdentity(<<"a">>, <<"B", " ">>))
    \/ \E x \in Ids, ch \in Channels : Call(GetOrCreateConversation(x, ch, "", "", now))
    \/ \E c \in 1..MaxConvs :
          Call(AddMessage(c, "customer", "hi", "gmail", 0, "", "", now))
    \/ \E c \in 1..MaxConvs : Call(ResolveConversation(c))
    \/ \E c \in 1..MaxConvs : Call(EscalateConversation(c, "angry", "", "ESC-1"))

SpecObtained == Init /\ [][NextObtained]_vars

\* The pipeline: tickets of one customer, pleased, displeased without a word
\* of the escalation tables, asking about the plan, or writing again, handled
\* one after the other, the conversation resolved at any moment.
PipelineMessages ==
    {SentimentTerm.good,
     SentimentTerm.not \o <<" ">> \o SentimentTerm.good,
     IntentTerm.plan,
     EscalationTerm.again}
PipelineTickets ==
    [id : {"T-1"}, channel : {"gmail"}, customer_name : {""},
     customer_email : {<<"A">>}, customer_plan : {"pro"}, subject : {<<>>},
     message : PipelineMessages, priority : {""}]

CallHandled(A) ==
    /\ Within(A, MaxThreads, 2 * MaxTickets)
    /\ Total(conversations', DOMAIN conversations') <= 2 * MaxTickets
    /\ UNCHANGED prev

NextPipeline ==
    \/ \E ticket \in PipelineTickets :
          CallHandled(HandleTicketWithContext(ticket, "ESC-1", now, now, now))
    \/ \E c \in 1..MaxThreads : CallHandled(ResolveConversation(c))

SpecPipeline == Init /\ [][NextPipeline]_vars

\* Concurrent callers: two customers that no identity link joins, each making
\* its calls one at a time, the steps of the two interleaved in any way while
\* the clock advances.
Customers == {<<"a">>, <<"b">>}

InitThreads ==
    /\ conversations = <<>>
    /\ customer_index = <<>>
    /\ identity_links = <<>>
    /\ now = 0
    /\ result = NoCall
    /\ prev = NoCall
    /\ was_resolved = {}
    /\ threads = [x \in Customers |-> Idle]

Stepping(A) ==
    /\ A
    /\ Cardinality(DOMAIN conversations' \cup Held') <= MaxConvs
    /\ \A c \in DOMAIN conversations' : Len(conversations'[c].messages) <= MaxMsgs
    /\ \A x \in Customers :
          /\ Len(threads'[x].log) <= MaxCalls
          /\ threads'[x].pc = "message" =>
                Len(conversations'[threads'[x].id].messages) < MaxMsgs

NextThreads ==
    \/ \E x \in Customers, t \in Times : Stepping(ObtainBegin(x, "gmail", t))
    \/ \E x \in Customers : Stepping(StartStore(x))
    \/ \E x \in Customers : Stepping(StartIndex(x))
    \/ \E x \in Customers : Stepping(StartAppend(x))
    \/ \E x \in Customers, t \in Times :
          Stepping(MessageBegin(x, "customer", "hi", "gmail", -30, "how_to", t))
    \/ \E x \in Customers : Stepping(MessageAppend(x))
    \/ \E x \in Customers : Stepping(ResolveObtained(x))

SpecThreads == InitThreads /\ [][NextThreads]_vars

----------------------------------------------------------------------------
(* Claims about identity resolution *)

Known == DOMAIN customer_index
LinksOf(id) == IF id \in DOMAIN identity_links THEN identity_links[id] ELSE {}
Edges(links) == {<<x, y>> \in (DOMAIN links) \X (DOMAIN links) : y \in links[x]}

\* C6 as claimed: resolve_customer_id(a) returns p for every known key p linked to
\* a that is not itself a key, and a (lower-cased, stripped) when neither a nor
\* an identifier linked to a is a key; it always returns.
C6_AsClaimed ==
    /\ \A x \in LinkIds : resolve_customer_id(x) # {}
    /\ result.op = "resolve_customer_id" =>
          LET a == Normalize(result.customer)
          IN  /\ a \notin Known =>
                    \A p \in LinksOf(a) \cap Known : result.cid = p
              /\ (a \notin Known /\ LinksOf(a) \cap Known = {}) => result.cid = a

\* C6 (amended): for a that is not a key, resolve_customer_id(a) returns p when p is
\* the only key linked to a, one of the keys linked to a when there are several,
\* and a (lower-cased, stripped) when no identifier linked to a is a key; it
\* always returns.
C6_ResolveOneOfLinkedKeys ==
    /\ \A x \in LinkIds : resolve_customer_id(x) # {}
    /\ result.op = "resolve_customer_id" =>
          LET a == Normalize(result.customer)
          IN  /\ (a \notin Known /\ LinksOf(a) \cap Known # {}) =>
                    result.cid \in LinksOf(a) \cap Known
              /\ (a \notin Known /\ LinksOf(a) \cap Known = {}) => result.cid = a

\* a written otherwise than stored, linked to exactly one key, resolved to it
C6_Witness ==
    /\ result.op = "resolve_customer_id"
    /\ Normalize(result.customer) # result.customer
    /\ Normalize(result.customer) \notin Known
    /\ Cardinality(LinksOf(Normalize(result.customer))) = 2
    /\ LinksOf(Normalize(result.customer)) \cap Known = {result.cid}

\* a - b - c with c a key, a and b not, and a not linked to c
Chain(a) ==
    \E b \in LinksOf(a), c \in Known :
        /\ c \in LinksOf(b)
        /\ c \notin LinksOf(a)
        /\ a \notin Known
        /\ b \notin Known

\* link_identity(p, alt) adds p -> alt and alt -> p to the links, nothing else
OnlyTwoEdges ==
    result'.op = "link_identity" =>
        LET p == Normalize(result'.customer)
            alt == Normalize(result'.cid)
        IN  Edges(identity_links') = Edges(identity_links) \cup {<<p, alt>>, <<alt, p>>}

----------------------------------------------------------------------------
(* Claims about the lifecycle *)

Returned == {"get_or_create_conversation", "get_active_conversation"}
TakesConvId == {"add_message", "resolve_conversation", "escalate_conversation"}

\* C1: once a conversation's status has become resolved, no later
\* get_or_create_conversation or get_active_conversation returns it.
C1_ResolvedNeverReturned ==
    (result.op \in Returned /\ result.ret # 0) => result.ret \notin was_resolved

\* C3: add_message, resolve_conversation and escalate_conversation given an id
\* that is not in the store raise, and leave the store as it was.
C3_UnknownIdRaises ==
    [][(result'.op \in TakesConvId /\ result'.conv \notin DOMAIN conversations)
       => (result'.raised # "" /\ store' = store)]_vars

\* C4: the conversation get_or_create_conversation(x, ...) returns is filed under
\* the canonical id resolve_customer_id(x) gave in that call: it carries that id
\* and is in that customer's list.
C4_FiledUnderResolved ==
    result.op = "get_or_create_conversation" =>
        /\ conversations[result.ret].customer_id = result.cid
        /\ InList(result.ret, ConvIdsOf(customer_index, result.cid))

----------------------------------------------------------------------------
(* Claims about successive calls *)

Count(x, l) == Cardinality({i \in 1..Len(l) : l[i] = x})

\* resolve/escalate of an active conversation c that was its customer's most
\* recent one, followed at once by get_or_create_conversation for that customer
Then(op) ==
    /\ prev.op = op
    /\ prev.conv \in DOMAIN conversations
    /\ prev.status_before = "active"
    /\ prev.latest
    /\ result.op = "get_or_create_conversation"
    /\ result.cid = conversations[prev.conv].customer_id

\* C2 as claimed: after resolve the next get_or_create_conversation returns a
\* conversation other than c whose status is active; after escalate it returns c,
\* still escalated.
C2_AsClaimed ==
    /\ Then("resolve_conversation") =>
           /\ result.ret # prev.conv
           /\ conversations[result.ret].status = "active"
    /\ Then("escalate_conversation") =>
           /\ result.ret = prev.conv
           /\ conversations[result.ret].status = "escalated"

\* C2 (amended): after resolve the next get_or_create_conversation returns a
\* conversation other than c that is active or escalated: a new one, which is
\* active, when no other conversation of the customer is active or escalated,
\* and else the most recent of these; after escalate it returns c, still
\* escalated.
C2_NextAfterResolveOrEscalate ==
    /\ Then("resolve_conversation") =>
           /\ result.ret # prev.conv
           /\ conversations[result.ret].status \in {"active", "escalated"}
           /\ result.created =>
                 /\ conversations[result.ret].status = "active"
                 /\ \A i \in 1..Len(ConvIdsOf(customer_index, result.cid)) :
                       LET other == ConvIdsOf(customer_index, result.cid)[i]
                       IN  other # result.ret => conversations[other].status = "resolved"
           /\ ~result.created =>
                 \A i \in 1..Len(ConvIdsOf(customer_index, result.cid)) :
                     LET other == ConvIdsOf(customer_index, result.cid)[i]
                     IN  conversations[other].status # "resolved" => other <= result.ret
    /\ Then("escalate_conversation") =>
           /\ result.ret = prev.conv
           /\ ~result.created
           /\ conversations[result.ret].status = "escalated"

\* resolve of the most recent conversation, then get_or_create_conversation
\* hands back an older, escalated conversation of the customer
C2_Witness ==
    /\ Then("resolve_conversation")
    /\ result.ret # prev.conv
    /\ conversations[result.ret].status = "escalated"

\* two get_or_create_conversation calls in a row that resolve to the same
\* customer, with different channels, the first returning an active
\* conversation of that customer
Twice ==
    /\ prev.op = "get_or_create_conversation"
    /\ result.op = "get_or_create_conversation"
    /\ prev.cid = result.cid
    /\ prev.channel # result.channel
    /\ conversations[prev.ret].status = "active"
    /\ conversations[prev.ret].customer_id = prev.cid

\* C5: two such calls return the same conversation, the second creates none,
\* and channels_used then holds both channels, each once.
C5_SameConversationBothChannels ==
    Twice =>
        /\ result.ret = prev.ret
        /\ ~result.created
        /\ Count(prev.channel, conversations[result.ret].channels_used) = 1
        /\ Count(result.channel, conversations[result.ret].channels_used) = 1

C5_Witness ==
    /\ Twice
    /\ prev.customer # result.customer
    /\ Len(conversations[result.ret].channels_used) = 2

----------------------------------------------------------------------------
(* Claims about message histories *)

IsPrefix(s, t) == Len(s) <= Len(t) /\ SubSeq(t, 1, Len(s)) = s

Ordered(samples) ==
    \A i, j \in 1..Len(samples) : i <= j => samples[i].timestamp <= samples[j].timestamp

\* the positions (from 0, as Python counts) of the customer messages, in order
RECURSIVE CustomerPositions(_, _)
CustomerPositions(msgs, i) ==
    IF i > Len(msgs) THEN <<>>
    ELSE (IF msgs[i].role = "customer" THEN <<i - 1>> ELSE <<>>)
         \o CustomerPositions(msgs, i + 1)

\* C8: with a clock that never goes back, every conversation has last_message_at
\* >= started_at and samples in the order of their timestamps, and no step
\* lowers last_message_at or changes the messages otherwise than by adding at
\* the end.
C8_AppendOnlyAndMonotonic ==
    /\ [](\A c \in DOMAIN conversations :
            /\ conversations[c].last_message_at >= conversations[c].started_at
            /\ Ordered(conversations[c].sentiment_history))
    /\ [][\A c \in DOMAIN conversations :
            /\ c \in DOMAIN conversations'
            /\ conversations'[c].last_message_at >= conversations[c].last_message_at
            /\ IsPrefix(conversations[c].messages, conversations'[c].messages)]_vars

\* two customer messages at different times, the later one after the start
C8_Witness ==
    \E c \in DOMAIN conversations :
        /\ Len(conversations[c].sentiment_history) = 2
        /\ conversations[c].messages[1].timestamp < conversations[c].messages[2].timestamp
        /\ conversations[c].last_message_at > conversations[c].started_at

\* C9: a conversation has one sample for each customer message and none for
\* another: the i-th sample carries the position of the i-th customer message
\* and the sentiment given with that message.
C9_OneSamplePerCustomerMessage ==
    \A c \in DOMAIN conversations :
        LET msgs == conversations[c].messages
            samples == conversations[c].sentiment_history
            at == CustomerPositions(msgs, 1)
        IN  /\ Len(samples) = Len(at)
            /\ \A i \in 1..Len(samples) :
                  /\ samples[i].message_index = at[i]
                  /\ samples[i].score = msgs[at[i] + 1].sentiment

\* an agent message, then a customer message: one sample, at position 1
C9_Witness ==
    \E c \in DOMAIN conversations :
        /\ Len(conversations[c].messages) = 2
        /\ conversations[c].messages[1].role = "agent"
        /\ Len(conversations[c].sentiment_history) = 1
        /\ conversations[c].sentiment_history[1].message_index = 1
        /\ conversations[c].sentiment_history[1].score = -30

----------------------------------------------------------------------------
(* Claims about names and plans *)

\* C10: customer_name and customer_plan are written once: no step changes a
\* field that is not empty, and a get_or_create_conversation that gives a name
\* or plan leaves the conversation it returns with that value if the field was
\* empty.
C10_NameAndPlanWriteOnce ==
    [][/\ \A c \in DOMAIN conversations :
            /\ c \in DOMAIN conversations'
            /\ conversations[c].customer_name # "" =>
                   conversations'[c].customer_name = conversations[c].customer_name
            /\ conversations[c].customer_plan # "" =>
                   conversations'[c].customer_plan = conversations[c].customer_plan
       /\ result'.op = "get_or_create_conversation" =>
            LET c == result'.ret
            IN  /\ (result'.name # "" /\ (c \in DOMAIN conversations =>
                                             conversations[c].customer_name = ""))
                      => conversations'[c].customer_name = result'.name
                /\ (result'.plan # "" /\ (c \in DOMAIN conversations =>
                                             conversations[c].customer_plan = ""))
                      => conversations'[c].customer_plan = result'.plan]_vars

\* get_or_create_conversation gave another name and another plan for a
\* conversation that had both, and the conversation kept its own
C10_Witness ==
    /\ result.op = "get_or_create_conversation"
    /\ ~result.created
    /\ result.name # ""
    /\ result.plan # ""
    /\ conversations[result.ret].customer_name \notin {"", result.name}
    /\ conversations[result.ret].customer_plan \notin {"", result.plan}

----------------------------------------------------------------------------
(* Claims about sentiment trends *)

SamplesOf(c) == IF c \in DOMAIN conversations THEN conversations[c].sentiment_history
                ELSE <<>>

\* the last n samples of h are all below the cutoff of -0.2
TrailingNegative(h, n) ==
    /\ Len(h) >= n
    /\ \A i \in (Len(h) - n + 1)..Len(h) : h[i].score < -20

\* C11: check_sentiment_trend returns should_escalate = True with trend
\* "declining" whenever the last three samples of the conversation, or more,
\* all have a score below -0.2, whatever the samples before them are.
C11_ThreeTrailingNegativesEscalate ==
    (result.op = "check_sentiment_trend" /\ TrailingNegative(SamplesOf(result.conv), 3))
        => /\ result.ret.should_escalate
           /\ result.ret.trend = "declining"

\* three negative samples after one that is not negative and is too close to
\* them for the first-to-last drop to count: the trailing run alone escalates
C11_Witness ==
    /\ result.op = "check_sentiment_trend"
    /\ Len(SamplesOf(result.conv)) = 4
    /\ SamplesOf(result.conv)[1].score = -20
    /\ TrailingNegative(SamplesOf(result.conv), 3)
    /\ result.ret.should_escalate
    /\ result.ret.consecutive_negative = 3

\* C20: check_sentiment_trend returns should_escalate = True exactly when the
\* last three samples or more are all below -0.2, or there are at least two
\* samples and the last score minus the first is at most -0.4; for a
\* conversation without samples it returns should_escalate = False and trend
\* "neutral", for one with a single sample should_escalate = False and trend
\* "insufficient_data"; and the call leaves the store as it was.
C20_EscalatesExactlyOnRunOrDrop ==
    /\ [](result.op = "check_sentiment_trend" /\ result.conv \in DOMAIN conversations =>
            LET h == SamplesOf(result.conv)
            IN  /\ result.ret.should_escalate <=>
                      \/ TrailingNegative(h, 3)
                      \/ Len(h) >= 2 /\ h[Len(h)].score - h[1].score <= -40
                /\ Len(h) = 0 =>
                      ~result.ret.should_escalate /\ result.ret.trend = "neutral"
                /\ Len(h) = 1 =>
                      /\ ~result.ret.should_escalate
                      /\ result.ret.trend = "insufficient_data")
    /\ [][result'.op = "check_sentiment_trend" => store' = store]_vars

\* two samples exactly 0.4 apart, the last one not negative: the drop escalates
C20_Witness ==
    /\ result.op = "check_sentiment_trend"
    /\ Len(SamplesOf(result.conv)) = 2
    /\ SamplesOf(result.conv)[1].score = 20
    /\ SamplesOf(result.conv)[2].score = -20
    /\ result.ret.should_escalate
    /\ result.ret.drop = -40

----------------------------------------------------------------------------
(* Claims about escalation *)

\* the message check searches: ticket.message + " " + ticket.subject
Searched(ticket) == ticket.message \o <<" ">> \o ticket.subject

\* the categories of a table of which a pattern is found in the ticket
Hit(patterns, ticket) ==
    {c \in DOMAIN patterns : HasWord(Searched(ticket), patterns[c])}

\* C12: check returns should_escalate = True exactly when a mandatory pattern
\* matches, or an advisory pattern matches and the penalty returned is at least
\* 0.2, or at least two reasons were recorded and the penalty is at least 0.2;
\* and a message with the word "refund" escalates whatever the sentiment, the
\* plan and the priority are.
C12_EscalatesExactlyOnDecisionRule ==
    result.op = "check" =>
        LET ticket == result.args.ticket
            penalty == result.ret.confidence_penalty
        IN  /\ result.ret.should_escalate <=>
                  \/ Hit(ALWAYS_ESCALATE_PATTERNS, ticket) # {}
                  \/ Hit(LIKELY_ESCALATE_PATTERNS, ticket) # {} /\ penalty >= 20
                  \/ Len(result.ret.reason) >= 2 /\ penalty >= 20
            /\ HasWord(ticket.message, {EscalationTerm.refund}) => result.ret.should_escalate

\* "REFUND" among other words, from a customer who is neither negative nor on
\* the enterprise plan, with a low priority: escalated
C12_Witness ==
    /\ result.op = "check"
    /\ HasWord(result.args.ticket.message, {EscalationTerm.refund})
    /\ EscalationTerm.refund \notin {result.args.ticket.subject}
    /\ Upper(EscalationTerm.refund) \in {Runs(result.args.ticket.message, WordChars)[i] :
                              i \in 1..Len(Runs(result.args.ticket.message, WordChars))}
    /\ result.args.detected_sentiment = 0
    /\ result.args.ticket.customer_plan = "pro"
    /\ result.args.ticket.priority = "low"
    /\ result.ret.should_escalate
    /\ Len(result.ret.reason) = 1

\* C13: a message that matches exactly one advisory category and no mandatory
\* pattern, with a sentiment above -0.1, not in capitals, and not of an
\* enterprise customer with critical priority, is not escalated.
C13_OneAdvisoryMatchDoesNotEscalate ==
    (/\ result.op = "check"
     /\ Cardinality(Hit(LIKELY_ESCALATE_PATTERNS, result.args.ticket)) = 1
     /\ Hit(ALWAYS_ESCALATE_PATTERNS, result.args.ticket) = {}
     /\ result.args.detected_sentiment > -10
     /\ ~AllCaps(result.args.ticket.message)
     /\ ~(/\ result.args.ticket.customer_plan = "enterprise"
          /\ result.args.ticket.priority = "critical"))
        => ~result.ret.should_escalate

\* the contributions of the signals of which the trail holds a reason
Contributions(reasons) ==
    {IF r[1] = "ALWAYS_ESCALATE" THEN 40
     ELSE IF r[1] = "LIKELY_ESCALATE" THEN 25
     ELSE IF r = <<"SENTIMENT", "very negative">> THEN 30
     ELSE IF r[1] = "SENTIMENT" THEN 10
     ELSE IF r[1] = "ANGER_SIGNAL" THEN 35
     ELSE 20 : r \in {reasons[i] : i \in 1..Len(reasons)}}

\* C22: the penalty check returns is the greatest, not the sum, of the
\* contributions of the signals that fired (mandatory 0.4, advisory 0.25, very
\* negative 0.3, negative 0.1, capitals 0.35, enterprise + critical 0.2): it is
\* one of 0, 0.1, 0.2, 0.25, 0.3, 0.35, 0.4, and 0 exactly when no reason was
\* recorded.
C22_PenaltyIsGreatestContribution ==
    result.op = "check" =>
        LET penalty == result.ret.confidence_penalty
            fired == Contributions(result.ret.reason)
        IN  /\ penalty \in fired \cup {0}
            /\ \A c \in fired : c <= penalty
            /\ penalty \in {0, 10, 20, 25, 30, 35, 40}
            /\ penalty = 0 <=> result.ret.reason = <<>>

\* an advisory match written in capitals by a mildly negative customer: three
\* contributions, 0.25, 0.1 and 0.35, and a penalty of 0.35
C22_Witness ==
    /\ result.op = "check"
    /\ Contributions(result.ret.reason) = {25, 10, 35}
    /\ result.ret.confidence_penalty = 35

\* the place of a reason in the fixed order of the signals
RankOf(r) ==
    IF r[1] = "ALWAYS_ESCALATE"
    THEN CHOOSE i \in 1..Len(ALWAYS_CATEGORIES) : ALWAYS_CATEGORIES[i] = r[2]
    ELSE IF r[1] = "LIKELY_ESCALATE"
    THEN Len(ALWAYS_CATEGORIES)
         + CHOOSE i \in 1..Len(LIKELY_CATEGORIES) : LIKELY_CATEGORIES[i] = r[2]
    ELSE Len(ALWAYS_CATEGORIES) + Len(LIKELY_CATEGORIES)
         + (IF r[1] = "SENTIMENT" THEN 1 ELSE IF r[1] = "ANGER_SIGNAL" THEN 2 ELSE 3)

\* C23: the enterprise + critical signal adds its reason and its 0.2 only when
\* no mandatory rule matched, so the trail never holds both a mandatory reason
\* and the context reason; the trail lists the reasons in the order mandatory
\* categories, advisory categories, sentiment, capitals, context, with at most
\* one reason for each category and at most one sentiment reason.
C23_ContextOnlyWithoutMandatoryInOrder ==
    result.op = "check" =>
        LET reasons == result.ret.reason
            ticket == result.args.ticket
            mandatory == \E i \in 1..Len(reasons) : reasons[i][1] = "ALWAYS_ESCALATE"
            context == \E i \in 1..Len(reasons) : reasons[i][1] = "CONTEXT"
        IN  /\ ~(mandatory /\ context)
            /\ context <=> /\ ticket.customer_plan = "enterprise"
                           /\ ticket.priority = "critical"
                           /\ Hit(ALWAYS_ESCALATE_PATTERNS, ticket) = {}
            /\ \A i, j \in 1..Len(reasons) :
                  i < j => RankOf(reasons[i]) < RankOf(reasons[j])

\* an enterprise customer's critical ticket asking for a refund in an angry,
\* very negative message: the trail has four reasons and not the context one
C23_Witness ==
    /\ result.op = "check"
    /\ result.args.ticket.customer_plan = "enterprise"
    /\ result.args.ticket.priority = "critical"
    /\ Len(result.ret.reason) = 4
    /\ result.ret.reason[1] = <<"ALWAYS_ESCALATE", "billing">>
    /\ \A i \in 1..4 : result.ret.reason[i][1] # "CONTEXT"

\* C24: check records the capitals reason, contributing 0.35, for every message
\* whose letters are all upper case and number at least 15, exactly 15 included.
C24_CapitalsFromFifteenLetters ==
    (/\ result.op = "check"
     /\ LET message == result.args.ticket.message
            letters == {i \in 1..Len(message) : message[i] \in Letters}
        IN  /\ Cardinality(letters) >= 15
            /\ \A i \in letters : message[i] = UpperChar(message[i]))
        => /\ \E i \in 1..Len(result.ret.reason) :
                 result.ret.reason[i][1] = "ANGER_SIGNAL"
           /\ result.ret.confidence_penalty >= 35

----------------------------------------------------------------------------
(* Claims about intents *)

\* the score of the i-th intent of the table for the message of the last call
ScoreOf(i) == Score(INTENT_ORDER[i], Normalize(result.args.message))

\* the place of an intent in the table
Place(intent) == CHOOSE i \in 1..Len(INTENT_ORDER) : INTENT_ORDER[i] = intent

\* C14: detect returns "spam" when the two patterns of spam match, whatever the
\* scores of the other intents; otherwise the intent with the highest number of
\* matching patterns, the one declared first among equals; and
\* "general_inquiry" exactly when no pattern of any intent matches.
C14_SpamThenHighestFirstDeclared ==
    result.op = "detect" =>
        LET n == Len(INTENT_ORDER)
            none == \A i \in 1..n : ScoreOf(i) = 0
        IN  /\ ScoreOf(Place("spam")) >= 2 => result.ret = "spam"
            /\ (ScoreOf(Place("spam")) < 2 /\ ~none) =>
                  /\ result.ret \in DOMAIN INTENT_PATTERNS
                  /\ \A i \in 1..n : ScoreOf(i) <= ScoreOf(Place(result.ret))
                  /\ \A i \in 1..(Place(result.ret) - 1) :
                        ScoreOf(i) < ScoreOf(Place(result.ret))
            /\ result.ret = "general_inquiry" <=> none

\* both patterns of spam and two patterns of billing_inquiry, which is declared
\* before spam: the answer is spam
C14_Witness ==
    /\ result.op = "detect"
    /\ ScoreOf(Place("spam")) = 2
    /\ ScoreOf(Place("billing_inquiry")) = 2
    /\ result.ret = "spam"

----------------------------------------------------------------------------
(* Claims about sentiment scores *)

\* C15: for every text the score analyze returns is between -1 and 1; it is 0
\* for the empty text, for a text of fewer than 2 characters, and whenever the
\* positive and the negative accumulator are both zero, in which case nothing
\* is divided.
C15_ScoreInRangeAndZeroWithoutSignal ==
    result.op = "analyze" =>
        LET text == result.args.text
        IN  /\ result.ret \in -100..100
            /\ Len(text) < 2 => result.ret = 0
            /\ (Accumulators(text).pos = 0 /\ Accumulators(text).neg = 0) =>
                  result.ret = 0

\* a text of several words, none of which adds to an accumulator: score 0
C15_Witness ==
    /\ result.op = "analyze"
    /\ Len(Runs(result.args.text, Letters)) >= 2
    /\ Accumulators(result.args.text).pos = 0
    /\ Accumulators(result.args.text).neg = 0
    /\ result.ret = 0

----------------------------------------------------------------------------
(* Claims about truncation *)

\* the last call found its first chunk over the budget and took words instead
WordsTaken ==
    /\ result.op = "_whatsapp_truncate"
    /\ Len(result.args.text) > result.args.max_chars
    /\ Len(result.ret) > Len(ELLIPSIS \o CONTINUATION)
    /\ SubSeq(result.ret, Len(result.ret) - Len(ELLIPSIS \o CONTINUATION) + 1,
              Len(result.ret)) = ELLIPSIS \o CONTINUATION
    /\ Packed(Chunks(Sentences(result.args.text)), result.args.max_chars, <<>>, 0) = <<>>

\* C16: for every text and every max_chars >= 0, _whatsapp_truncate returns the
\* text as it is when it has at most max_chars characters, and otherwise a
\* string of at most max_chars characters plus those of the continuation
\* "\n\nWant me to explain more?", whether sentences or words were taken.
C16_TruncatedWithinBudgetPlusSuffix ==
    result.op = "_whatsapp_truncate" =>
        LET text == result.args.text
            max_chars == result.args.max_chars
        IN  /\ Len(text) <= max_chars => result.ret = text
            /\ Len(text) > max_chars =>
                  Len(result.ret) <= max_chars + Len(CONTINUATION)
            /\ WordsTaken =>
                  Len(result.ret) <= max_chars - 25 + Len(ELLIPSIS \o CONTINUATION)

\* sentences that fill the budget to the last character, cut before the next
\* one: the answer has max_chars characters and the continuation
C16_Witness ==
    /\ result.op = "_whatsapp_truncate"
    /\ Len(result.args.text) > result.args.max_chars
    /\ Len(result.ret) = result.args.max_chars + Len(CONTINUATION)
    /\ SubSeq(result.ret, result.args.max_chars + 1, Len(result.ret)) = CONTINUATION

----------------------------------------------------------------------------
(* Claims about customer histories *)

\* C17: get_customer_history of a customer with no conversations returns the
\* empty record (count 0, no conversations, topics, channels or sentiments,
\* no last contact); for every customer the reported count is the number of
\* conversations filed under the resolved customer id; and the call leaves
\* the store as it was.
C17_HistoryCountsFiledConversations ==
    /\ [](result.op = "get_customer_history" =>
            LET conv_ids == ConvIdsOf(customer_index, result.cid)
            IN  /\ result.ret.conversation_count = Len(conv_ids)
                /\ result.ret.customer_id = result.cid
                /\ conv_ids = <<>> =>
                      /\ result.ret.conversation_count = 0
                      /\ result.ret.conversations = <<>>
                      /\ result.ret.all_topics = <<>>
                      /\ result.ret.all_channels = {}
                      /\ result.ret.sentiment_trend = <<>>
                      /\ result.ret.last_contact = <<>>)
    /\ [][result'.op = "get_customer_history" => store' = store]_vars

\* the history of a customer without conversations, asked while the other
\* customer has two, one of them no longer active
C17_Witness ==
    /\ result.op = "get_customer_history"
    /\ result.cid \notin DOMAIN customer_index
    /\ result.ret.conversation_count = 0
    /\ \E k \in DOMAIN customer_index :
          /\ Len(customer_index[k]) = 2
          /\ conversations[customer_index[k][1]].status # "active"

----------------------------------------------------------------------------
(* Claims about the customer index *)

\* the number of places of conversation c in the list filed under key k
PlacesOf(k, c) ==
    Cardinality({i \in 1..Len(customer_index[k]) : customer_index[k][i] = c})

\* C18: in every reachable state each conversation of the store is listed
\* exactly once, in the list of its own customer_id and in no other list;
\* every listed id is a conversation of the store; every list is in the order
\* in which its conversations were created (conversations are numbered as they
\* are created); and the customer_id of a conversation never changes.
C18_IndexFilesEachConversationOnce ==
    /\ [](/\ \A c \in DOMAIN conversations :
                /\ conversations[c].customer_id \in DOMAIN customer_index
                /\ \A k \in DOMAIN customer_index :
                      PlacesOf(k, c) = IF k = conversations[c].customer_id THEN 1 ELSE 0
          /\ \A k \in DOMAIN customer_index :
                \A i \in 1..Len(customer_index[k]) :
                   /\ customer_index[k][i] \in DOMAIN conversations
                   /\ \A j \in 1..Len(customer_index[k]) :
                         i < j => customer_index[k][i] < customer_index[k][j])
    /\ [][\A c \in DOMAIN conversations :
             /\ c \in DOMAIN conversations'
             /\ conversations'[c].customer_id = conversations[c].customer_id]_vars

\* two conversations filed under one customer whose identifier is linked to
\* another, the older one resolved and the newer one escalated
C18_Witness ==
    /\ identity_links # <<>>
    /\ \E k \in DOMAIN customer_index :
          /\ Len(customer_index[k]) = 2
          /\ conversations[customer_index[k][1]].status = "resolved"
          /\ conversations[customer_index[k][2]].status = "escalated"

----------------------------------------------------------------------------
(* Claims about active conversations *)

\* the conversations of the resolved customer that the call may return
EligibleNow ==
    LET conv_ids == ConvIdsOf(customer_index, result.cid)
    IN  {c \in DOMAIN conversations :
           /\ InList(c, conv_ids)
           /\ conversations[c].status \in
                 (IF result.include_escalated THEN {"active", "escalated"}
                  ELSE {"active"})
           /\ \/ result.channel = ""
              \/ InList(result.channel, conversations[c].channels_used)
              \/ result.channel = conversations[c].channel}

\* C19: get_active_conversation returns the most recently created conversation
\* of the resolved customer that is active (or active or escalated with
\* include_escalated) and, when a channel is given, has the channel among its
\* channels_used or as its initial channel; it returns None when there is no
\* such conversation; without include_escalated it never returns an escalated
\* conversation.
C19_ReturnsLatestEligibleConversation ==
    [](result.op = "get_active_conversation" =>
         /\ EligibleNow = {} => result.ret = 0
         /\ EligibleNow # {} =>
               /\ result.ret \in EligibleNow
               /\ \A c \in EligibleNow : c <= result.ret
         /\ ~result.include_escalated /\ result.ret # 0 =>
               conversations[result.ret].status # "escalated")

\* asked for whatsapp: an older conversation started on gmail and continued
\* on whatsapp is returned, past a newer active one that never saw whatsapp
C19_Witness ==
    /\ result.op = "get_active_conversation"
    /\ result.channel = "whatsapp"
    /\ ~result.include_escalated
    /\ result.ret # 0
    /\ conversations[result.ret].channel = "gmail"
    /\ \E c \in DOMAIN conversations :
          c > result.ret /\ conversations[c].status = "active"

----------------------------------------------------------------------------
(* Claims about topics *)

\* the intents of the messages, in the order of the messages
IntentsOf(conv) == [i \in 1..Len(conv.messages) |-> conv.messages[i].intent]

\* the places of l that hold a topic for the first time
FirstPlaces(l) ==
    {i \in 1..Len(l) :
        /\ l[i] \notin {"", "greeting", "unclear", "spam", "general_inquiry"}
        /\ \A j \in 1..(i - 1) : l[j] # l[i]}

\* C21: in every reachable state the topics of a conversation have no
\* duplicates, hold none of greeting, unclear, spam, general_inquiry and the
\* empty string, and are the intents of its messages in the order in which
\* they first occurred; add_message with an intent already among the topics,
\* or with a low-value or empty intent, leaves the topics as they were.
C21_TopicsAreFirstOccurrences ==
    /\ [](\A c \in DOMAIN conversations :
            LET topics == conversations[c].topics_discussed
                l == IntentsOf(conversations[c])
            IN  /\ \A i, j \in 1..Len(topics) : topics[i] = topics[j] => i = j
                /\ \A i \in 1..Len(topics) :
                      topics[i] \notin {"", "greeting", "unclear", "spam", "general_inquiry"}
                /\ Len(topics) = Cardinality(FirstPlaces(l))
                /\ \A i \in 1..Len(topics) :
                      \E p \in FirstPlaces(l) :
                         /\ l[p] = topics[i]
                         /\ Cardinality({q \in FirstPlaces(l) : q < p}) = i - 1)
    /\ [][\A c \in DOMAIN conversations :
             LET before == conversations[c]
                 after == conversations'[c]
                 intent == after.messages[Len(after.messages)].intent
             IN  /\ Len(after.messages) = Len(before.messages) + 1
                 /\ \/ intent \in {"", "greeting", "unclear", "spam", "general_inquiry"}
                    \/ InList(intent, before.topics_discussed)
                 => after.topics_discussed = before.topics_discussed]_vars

\* a message about a bug and then one asking how to: two topics, in the order
\* of their messages
C21_Witness ==
    \E c \in DOMAIN conversations :
       /\ conversations[c].topics_discussed = <<"bug_report", "how_to">>
       /\ Len(conversations[c].messages) = 2

----------------------------------------------------------------------------
(* Claims about statuses *)

\* C25: in every reachable state an active conversation is pending and has an
\* empty escalation id and reason, a resolved one is solved, and an escalated
\* one has resolution_status escalated and a non-empty escalation id, the one
\* supplied to, or generated and returned by, the latest escalate_conversation
\* call for it.
C25_StatusAgreesWithResolutionAndEscalation ==
    /\ [](\A c \in DOMAIN conversations :
            LET conv == conversations[c]
            IN  /\ conv.status = "active" =>
                      /\ conv.resolution_status = "pending"
                      /\ conv.escalation_id = ""
                      /\ conv.escalation_reason = ""
                /\ conv.status = "resolved" => conv.resolution_status = "solved"
                /\ conv.status = "escalated" =>
                      /\ conv.resolution_status = "escalated"
                      /\ conv.escalation_id # "")
    /\ [][\A c \in DOMAIN conversations :
             IF result'.op = "escalate_conversation" /\ result'.conv = c
             THEN /\ conversations'[c].escalation_id = result'.text
                  /\ result'.text \in (Supplied \cup Generated) \ {""}
             ELSE conversations'[c].escalation_id = conversations[c].escalation_id]_vars

\* a conversation escalated a second time, under a supplied id that replaces
\* the generated one of the first time
C25_Witness ==
    /\ result.op = "escalate_conversation"
    /\ result.status_before = "escalated"
    /\ result.text = "ESC-7"
    /\ conversations[result.conv].escalation_id = "ESC-7"
    /\ conversations[result.conv].status = "escalated"

\* the conversations a customer key lists that are active or escalated
OpenUnder(k) ==
    {c \in DOMAIN conversations :
        /\ InList(c, customer_index[k])
        /\ conversations[c].status \in {"active", "escalated"}}

\* C29: when conversations are created only through get_or_create_conversation,
\* each customer key has at most one active or escalated conversation in every
\* reachable state.
C29_OneOpenConversationForEachKey ==
    \A k \in DOMAIN customer_index : Cardinality(OpenUnder(k)) <= 1

\* C30: no operation sets a status back to active; a status changes only from
\* active to resolved, active to escalated, escalated to resolved and resolved
\* to escalated, and only by resolve_conversation and escalate_conversation,
\* which apply their change whatever the current status is; a conversation is
\* active when it is created.
C30_StatusNeverReturnsToActive ==
    [][/\ \A c \in DOMAIN conversations :
             LET before == conversations[c].status
                 after == conversations'[c].status
             IN  /\ after = "active" => before = "active"
                 /\ before # after =>
                       /\ <<before, after>> \in
                             {<<"active", "resolved">>, <<"active", "escalated">>,
                              <<"escalated", "resolved">>, <<"resolved", "escalated">>}
                       /\ result'.conv = c
                       /\ result'.op = (IF after = "resolved" THEN "resolve_conversation"
                                        ELSE "escalate_conversation")
                 /\ result'.op = "resolve_conversation" /\ result'.conv = c =>
                       after = "resolved"
                 /\ result'.op = "escalate_conversation" /\ result'.conv = c =>
                       after = "escalated"
       /\ \A c \in DOMAIN conversations' \ DOMAIN conversations :
             conversations'[c].status = "active"]_vars

\* a resolved conversation escalated, and so no longer resolved
C30_Witness ==
    /\ result.op = "escalate_conversation"
    /\ result.status_before = "resolved"
    /\ conversations[result.conv].status = "escalated"

----------------------------------------------------------------------------
(* Claims about the ticket pipeline *)

\* the messages of conversation c in a store, none when it is not there
MessagesIn(convs, c) == IF c \in DOMAIN convs THEN convs[c].messages ELSE <<>>

\* C26: handling a ticket with conversation context appends exactly two
\* messages to one conversation, the customer's message and then the agent's
\* reply, and leaves the other conversations alone, so that while no
\* conversation has been resolved the customer's one conversation holds two
\* messages for each ticket, customer and agent in turn; after the call the
\* conversation is escalated when the decision returned has should_escalate
\* true, and has the status it had when it is false.
C26_TwoMessagesForEachTicket ==
    /\ [](/\ \A c \in DOMAIN conversations :
                LET messages == conversations[c].messages
                IN  /\ Len(messages) % 2 = 0
                    /\ \A i \in 1..Len(messages) :
                          messages[i].role = (IF i % 2 = 1 THEN "customer" ELSE "agent")
          /\ was_resolved = {} => Cardinality(DOMAIN conversations) <= 1)
    /\ [][result'.op = "handle_ticket_with_context" =>
            LET c == result'.conv
                before == MessagesIn(conversations, c)
                after == MessagesIn(conversations', c)
            IN  /\ Len(after) = Len(before) + 2
                /\ SubSeq(after, 1, Len(before)) = before
                /\ after[Len(before) + 1].role = "customer"
                /\ after[Len(before) + 1].content = result'.args.ticket.message
                /\ after[Len(before) + 2].role = "agent"
                /\ \A d \in DOMAIN conversations \ {c} :
                      conversations'[d] = conversations[d]
                /\ conversations'[c].status =
                      IF result'.ret.should_escalate THEN "escalated"
                      ELSE IF c \in DOMAIN conversations THEN conversations[c].status
                      ELSE "active"]_vars

\* the second ticket of a customer whose first one was escalated: the
\* conversation has four messages, the decision is not to escalate, and the
\* conversation is escalated as it was
C26_Witness ==
    /\ result.op = "handle_ticket_with_context"
    /\ was_resolved = {}
    /\ ~result.ret.should_escalate
    /\ result.status_before = "escalated"
    /\ Len(conversations[result.conv].messages) = 4
    /\ conversations[result.conv].status = "escalated"

\* C27: the customer message is stored before the trend is checked, so the
\* trend covers the sentiment of the current message; whenever the trend
\* recommends escalation the decision returned has should_escalate true, and
\* when check alone said false the penalty is at least 0.3 and a
\* SENTIMENT_TREND reason ends the trail; so the third customer message in a
\* row with a sentiment below -0.2 yields an escalated decision and an
\* escalated conversation.
C27_TrendCoversCurrentMessageAndEscalates ==
    result.op = "handle_ticket_with_context" =>
        LET conv == conversations[result.conv]
            h == conv.sentiment_history
            recommended == \/ TrailingNegative(h, 3)
                           \/ Len(h) >= 2 /\ h[Len(h)].score - h[1].score <= -40
            alone == check(result.args.ticket, result.ret.detected_sentiment)
            reasons == result.ret.escalation_reason
        IN  /\ h # <<>>
            /\ h[Len(h)].score = result.ret.detected_sentiment
            /\ h[Len(h)].message_index = Len(conv.messages) - 2
            /\ recommended =>
                  /\ result.ret.should_escalate
                  /\ conv.status = "escalated"
            /\ recommended /\ ~alone.should_escalate =>
                  /\ result.ret.confidence_penalty >= 30
                  /\ reasons # <<>>
                  /\ reasons[Len(reasons)][1] = "SENTIMENT_TREND"
            /\ ~recommended => /\ result.ret.should_escalate = alone.should_escalate
                               /\ reasons = alone.reason

\* the third displeased message in a row, none of which check alone escalates
C27_Witness ==
    /\ result.op = "handle_ticket_with_context"
    /\ result.status_before = "active"
    /\ Len(conversations[result.conv].sentiment_history) = 3
    /\ TrailingNegative(conversations[result.conv].sentiment_history, 3)
    /\ ~check(result.args.ticket, result.ret.detected_sentiment).should_escalate
    /\ result.ret.should_escalate
    /\ conversations[result.conv].status = "escalated"

----------------------------------------------------------------------------
(* Claims about concurrent callers *)

\* a conversation without what depends on the moment and on the other
\* callers: its id and the timestamps
Timeless(conv) ==
    [conv EXCEPT
        !.conversation_id = 0,
        !.started_at = 0,
        !.last_message_at = 0,
        !.messages = [i \in 1..Len(conv.messages) |->
                         [conv.messages[i] EXCEPT !.timestamp = 0]],
        !.sentiment_history = [i \in 1..Len(conv.sentiment_history) |->
                                  [conv.sentiment_history[i] EXCEPT !.timestamp = 0]]]

\* the conversations of a customer whose calls, those of log in their order,
\* are the only ones made, and the place of the conversation obtained last
RECURSIVE Alone(_, _)
Alone(self, log) ==
    IF log = <<>> THEN [convs |-> <<>>, cur |-> 0]
    ELSE LET s == Alone(self, SubSeq(log, 1, Len(log) - 1))
             call == log[Len(log)]
             open == {k \in 1..Len(s.convs) : s.convs[k].status \in {"active", "escalated"}}
             last == CHOOSE k \in open : \A j \in open : j <= k
         IN  IF call[1] = "get_or_create_conversation"
             THEN IF open # {}
                  THEN [convs |-> [s.convs EXCEPT ![last] = Reused(@, call[2], "", "")],
                        cur |-> last]
                  ELSE [convs |-> Append(s.convs,
                                         NewConversation(0, StartKey(self), call[2], 0,
                                                         "", "")),
                        cur |-> Len(s.convs) + 1]
             ELSE IF call[1] = "add_message"
             THEN [s EXCEPT !.convs[s.cur] =
                               Timeless(AddedTo(@, call[2], call[3], call[4], call[5],
                                                call[6], "", 0))]
             ELSE [s EXCEPT !.convs[s.cur] = Resolved(@)]

============================================================================
